---- MODULE Spec2Model ----
(***************************************************************************)
(* A model of proxy-kp: the smooth weighted round-robin balancer           *)
(* (pkg/balancer), the active health checker (pkg/health) and the          *)
(* per-client token-bucket limiter (pkg/ratelimit).                        *)
(***************************************************************************)
EXTENDS Bags, Integers, Sequences, FiniteSets, TLC

\* ------------------------------------------------------------------ bounds
\* Largest static weight a configured backend gets.
MaxWeight == 3
\* NextBackend calls explored after construction and after each health flip.
MaxCalls == 9
\* NextBackend calls explored when health flags flip underneath the balancer.
MaxRaceCalls == 2
\* Health flips by the checker explored in one run.
MaxFlips == 3
\* Clock ticks explored (for the health checker a tick is one ticker interval).
MaxTime == 5
\* checkBackend goroutines running at once, as far as the exploration follows
\* them.
MaxUnfinished == 3
\* health_check.failure_threshold of the explored configuration.
FailureThreshold == 2
\* health_check.recovery_interval of the explored configuration, in ticks.
RecoveryInterval == 2
\* rate_limit.burst of the explored configuration.
Burst == 2
\* Clock ticks in which the explored rate_limit.requests_per_minute refills one
\* token.
RefillTicks == 2
\* The idle timeout handed to CleanupStale, in clock ticks.
IdleTimeout == 1
\* Allow calls explored in one run.
MaxAllows == 5
\* Allow calls running at once.
MaxCallers == 2
\* Clock ticks explored with the rate limiter and the cache.
MaxClock == 3
\* The largest cache.ttl explored, in clock ticks.
MaxTtl == 2
\* Requests explored in one run of the proxy, and requests in flight at once.
MaxRequests == 3
MaxInFlight == 2
\* Ticks of the checker's ticker explored while the server starts and shuts
\* down, and Stop calls made on each worker besides those of Shutdown.
MaxLifeTicks == 1
MaxDirectStops == 2
\* Consecutive NextBackend results remembered.
Remembered == 3
\* Backends in the pool at once, largest weight and NextBackend calls explored
\* while backends are added and removed.
MaxPool == 3
MaxPoolWeight == 2
MaxPoolCalls == 2
\* The URLs of the backends added and removed (a URL can be added twice).
PoolUrls == {"a", "b"}

\* Pool sizes explored (the empty pool is NewSRR() before any AddBackend).
PoolSizes == 0..3
\* The URL of the i-th configured backend.
UrlOf == <<"a", "b", "c", "d">>
Urls == {"a", "b", "c", "d"}
\* Pool sizes explored with the health checker running.
CheckedPoolSizes == 1..2
\* What a probe's HTTP exchange can end in: client.Do fails (network error or
\* timeout), or a response arrives with status 200 or with another status.
Outcomes == {"error", "status200", "status500"}
\* Client addresses.
Ips == {"x", "y"}
\* Cache keys (method and URL of a request), bodies and header maps.
Keys == {"GET:/p", "GET:/q"}
Bodies == {"one", "two"}
Headers == {[Vary |-> <<"a", "b">>], [Vary |-> <<"c">>]}
\* Methods, URLs and client addresses of the requests sent to the proxy.
Methods == {"GET", "POST"}
Paths == {"/p"}
Clients == {"x"}

VARIABLES
    backends,   \* SRR.backends: the slice of *Backend, in insertion order
    nb,         \* the NextBackend call holding SRR.mu: pc, loop index, totalWeight, best
    ret,        \* what the latest NextBackend call returned
    phase,      \* history: "fresh", "down" (one backend marked unhealthy), "recovered", "race"
    downId,     \* history: the backend marked unhealthy in phase "down"
    downAtZero, \* history: every current weight was 0 when it was marked unhealthy
    upAtZero,   \* history: every current weight was 0 when it was marked healthy again
    calls,      \* history: NextBackend calls completed in this phase
    cnt,        \* history: how often each backend was returned in this phase
    recent,     \* history: the backends the latest calls of this phase returned
    stableH,    \* history: backends healthy from the lock acquisition of the call on
    stableU,    \* history: backends unhealthy from the lock acquisition of the call on
    atLock,     \* history: the pool and its current weights when the call acquired the lock
    flips,      \* history: flag changes made by the checker
    now,        \* the clock, in ticks of the checker's ticker
    failures,   \* Checker.failures: URL -> consecutive failures counted
    lastCheck,  \* Checker.lastCheck: URL -> time of the last recorded response
    cmu,        \* Checker.mu: <<>> when free, else the probe goroutine holding it
    probes,     \* the running checkBackend goroutines
    streak,     \* history: failed probes recorded since the last successful one
    downProbe,  \* history: when the last probe of an unhealthy backend was sent
    limiters,   \* Limiter.limiters: IP -> *clientLimiter (0 when the IP has no entry)
    buckets,    \* the clientLimiter objects in use, by address
    callers,    \* the running Allow calls
    allows,     \* history: clientLimiter objects created and Allow calls started
    granted,    \* history: per IP, how many Allow calls returned true at each time
    reaped,     \* what the CleanupStale call that has just run returned
    firsts,     \* history: per IP, the createNewLimiter calls since the IP last
                \* lost its entry, and the clientLimiter objects they asked
    entries,    \* Cache.entries: key -> *Entry (NoEntry when the key has none)
    ttl,        \* Cache.ttl
    got,        \* the cache operation that has just run, with what it returned
    written,    \* history: per key, the latest Set since the key was last
                \* deleted or cleared, and how many Sets there were
    reqs,       \* the requests in flight: where each stands in Chain and
                \* ServeHTTP, what it has sent, and (history) what it has done
    answered,   \* the request that has just been answered, as it then was
    pipe,       \* cache.enabled and rate_limit.enabled of the configuration, and
                \* (history) the number of requests started
    cfg,        \* the Config as yaml.Unmarshal filled it from the file
    loaded,     \* what config.Load returned for it
    ctx,        \* the context main passes to Server.Start is cancelled
    workers,    \* Checker and CleanupManager: the loop goroutine, stopCh, stopOnce, wg
    listeners,  \* Server.server and Server.tlsServer, and their ListenAndServe goroutines
    starter,    \* Server.Start: where it stands, and what its errCh holds
    stopCalls,  \* the running Stop and http.Server.Shutdown calls
    shutdowns,  \* the Server.Shutdown invocations of main and of Server.Start
    joined      \* history: the workers a Stop call has returned for after
                \* finding their loop started

srrVars == <<backends, nb, ret>>
histVars == <<phase, downId, downAtZero, upAtZero, calls, cnt, recent, stableH, stableU, atLock, flips>>
checkerVars == <<now, failures, lastCheck, cmu, probes>>
probeHist == <<streak, downProbe>>
limiterVars == <<limiters, buckets, callers, allows, granted, reaped, firsts>>
cacheVars == <<entries, ttl, got, written>>
proxyVars == <<reqs, answered, pipe>>
configVars == <<cfg, loaded>>
lifeVars == <<ctx, workers, listeners, starter, stopCalls, shutdowns, joined>>
vars == <<srrVars, histVars, checkerVars, probeHist, limiterVars, cacheVars, proxyVars,
          configVars, lifeVars>>

\* ------------------------------------------------------------ pure helpers
RECURSIVE SumWeights(_, _)
\* Sum of backends[i].Weight over the positions i in S.
SumWeights(bs, S) ==
    IF S = {} THEN 0
    ELSE LET i == CHOOSE x \in S : TRUE
         IN bs[i].Weight + SumWeights(bs, S \ {i})

RECURSIVE Gcd(_, _)
Gcd(a, b) == IF b = 0 THEN a ELSE Gcd(b, a % b)

RECURSIVE GcdWeights(_, _)
GcdWeights(bs, S) ==
    IF S = {} THEN 0
    ELSE LET i == CHOOSE x \in S : TRUE
         IN Gcd(bs[i].Weight, GcdWeights(bs, S \ {i}))

Ids(bs) == {bs[i].id : i \in DOMAIN bs}
HealthyIds(bs) == {bs[i].id : i \in {j \in DOMAIN bs : bs[j].Healthy}}
UnhealthyIds(bs) == {bs[i].id : i \in {j \in DOMAIN bs : ~bs[j].Healthy}}
AllZero(bs) == \A i \in DOMAIN bs : bs[i].CurrentWeight = 0
ZeroCounts == [i \in 1..Len(UrlOf) |-> 0]
\* The pool (which backends, in which order) and every backend's current weight.
PoolWeights(bs) == [i \in DOMAIN bs |-> <<bs[i].id, bs[i].CurrentWeight>>]

\* ------------------------------------------------------------- the balancer
\* NewBackend(url, weight): current weight 0, healthy.
NewBackend(i, url, weight) ==
    [id |-> i, URL |-> url, Weight |-> weight, CurrentWeight |-> 0, Healthy |-> TRUE]

IsHealthyIgnored(b) == TRUE
\* Backend.IsHealthy()
IsHealthy(b) == b.Healthy

Idle == [pc |-> "idle", i |-> 0, totalWeight |-> 0, best |-> 0]
NoResult == [kind |-> "none", id |-> 0]
ErrNoHealthyBackends == [kind |-> "err", id |-> 0]
Returned(b) == [kind |-> "ok", id |-> b.id]

AlwaysCounts(b) == TRUE
\* First loop of NextBackend: a backend takes part when its flag reads healthy.
CountsInTotal(b) == IsHealthy(b)

AlwaysCandidate(b) == TRUE
\* Second loop of NextBackend: a backend is a candidate when its flag reads healthy.
IsCandidate(b) == IsHealthy(b)

BetterOrTied(bs, best, i) == best = 0 \/ bs[i].CurrentWeight >= bs[best].CurrentWeight
\* best == nil || b.CurrentWeight > best.CurrentWeight
Better(bs, best, i) == best = 0 \/ bs[i].CurrentWeight > bs[best].CurrentWeight

PenaltyOwnWeight(totalWeight, b) == b.Weight
NoPenalty(totalWeight, b) == 0
\* best.CurrentWeight -= totalWeight
Penalty(totalWeight, b) == totalWeight

\* s.mu.Lock(); if len(s.backends) == 0 { return nil, ErrNoHealthyBackends }
NBLock ==
    /\ nb.pc = "idle"
    /\ IF Len(backends) = 0
       THEN /\ ret' = ErrNoHealthyBackends
            /\ nb' = Idle
       ELSE /\ ret' = NoResult
            /\ nb' = [pc |-> "loop1", i |-> 1, totalWeight |-> 0, best |-> 0]
    /\ UNCHANGED backends

\* One iteration of the first loop; after the last one, the totalWeight == 0 test.
NBLoop1 ==
    /\ nb.pc = "loop1"
    /\ LET b == backends[nb.i]
           counted == CountsInTotal(b)
           total == IF counted THEN nb.totalWeight + b.Weight ELSE nb.totalWeight
       IN /\ backends' = IF counted
                         THEN [backends EXCEPT ![nb.i].CurrentWeight = @ + b.Weight]
                         ELSE backends
          /\ IF nb.i < Len(backends)
             THEN /\ nb' = [nb EXCEPT !.i = @ + 1, !.totalWeight = total]
                  /\ UNCHANGED ret
             ELSE IF total = 0
                  THEN /\ nb' = Idle
                       /\ ret' = ErrNoHealthyBackends
                  ELSE /\ nb' = [nb EXCEPT !.pc = "loop2", !.i = 1, !.totalWeight = total]
                       /\ UNCHANGED ret

\* One iteration of the second loop; after the last one, the best == nil test,
\* best.CurrentWeight -= totalWeight and the return.
NBLoop2 ==
    /\ nb.pc = "loop2"
    /\ LET b == backends[nb.i]
           best == IF IsCandidate(b) /\ Better(backends, nb.best, nb.i)
                   THEN nb.i ELSE nb.best
       IN IF nb.i < Len(backends)
          THEN /\ nb' = [nb EXCEPT !.i = @ + 1, !.best = best]
               /\ UNCHANGED <<backends, ret>>
          ELSE IF best = 0
               THEN /\ nb' = Idle
                    /\ ret' = ErrNoHealthyBackends
                    /\ UNCHANGED backends
               ELSE /\ nb' = Idle
                    /\ ret' = Returned(backends[best])
                    /\ backends' = [backends EXCEPT ![best].CurrentWeight =
                                        @ - Penalty(nb.totalWeight, backends[best])]

\* Backend.SetHealthy(healthy) on the backend with this id: takes only the
\* backend's own lock, so it can run while NextBackend holds SRR.mu.
BackendSetHealthy(id, healthy) ==
    /\ \E i \in DOMAIN backends :
          /\ backends[i].id = id
          /\ backends' = [backends EXCEPT ![i].Healthy = healthy]
    /\ UNCHANGED <<nb, ret>>

LastWithUrl(bs, url) ==
    IF \E i \in DOMAIN bs : bs[i].URL = url
    THEN CHOOSE i \in DOMAIN bs :
            bs[i].URL = url /\ \A j \in (i + 1)..Len(bs) : bs[j].URL # url
    ELSE 0
\* The position the loops of SRR.SetHealthy and RemoveBackend stop at: the first
\* backend with this URL.
FirstWithUrl(bs, url) ==
    IF \E i \in DOMAIN bs : bs[i].URL = url
    THEN CHOOSE i \in DOMAIN bs :
            bs[i].URL = url /\ \A j \in 1..(i - 1) : bs[j].URL # url
    ELSE 0

\* What SRR.SetHealthy(url, healthy) returns: true when its loop found the URL.
SetHealthyFound(bs, url) == FirstWithUrl(bs, url) # 0

\* SRR.SetHealthy(url, healthy): takes SRR.mu.RLock, so no NextBackend is running.
SRRSetHealthy(url, healthy) ==
    /\ nb.pc = "idle"
    /\ LET i == FirstWithUrl(backends, url)
       IN backends' = IF i = 0 THEN backends
                      ELSE [backends EXCEPT ![i].Healthy = healthy]
    /\ UNCHANGED <<nb, ret>>

\* A backend identity not in the pool (the pointer NewBackend returns).
FreshId == CHOOSE i \in 1..Len(UrlOf) :
              i \notin Ids(backends) /\ \A j \in 1..(i - 1) : j \in Ids(backends)

\* AddBackend(backend): s.mu.Lock(); s.backends = append(s.backends, backend)
AddBackend(url, weight) ==
    /\ nb.pc = "idle"
    /\ Len(backends) < MaxPool
    /\ LET b == NewBackend(FreshId, url, weight)
       IN /\ backends' = [i \in 1..(Len(backends) + 1) |->
                            IF i <= Len(backends) THEN backends[i] ELSE b]
          /\ ret' = [kind |-> "added", id |-> b.id, url |-> url]
    /\ UNCHANGED nb

\* append(s.backends[:i], s.backends[i+1:]...): the elements after position i
\* move down by one and the slice is one shorter.
Without(bs, i) == [j \in 1..(Len(bs) - 1) |-> IF j < i THEN bs[j] ELSE bs[j + 1]]

\* RemoveBackend(url): s.mu.Lock(); the loop returns true at the first backend
\* with the URL, after taking it out of the slice, and false when there is none.
RemoveBackend(url) ==
    /\ nb.pc = "idle"
    /\ LET i == FirstWithUrl(backends, url)
       IN IF i = 0
          THEN /\ ret' = [kind |-> "absent", id |-> 0, url |-> url]
               /\ UNCHANGED backends
          ELSE /\ ret' = [kind |-> "removed", id |-> backends[i].id, url |-> url]
               /\ backends' = Without(backends, i)
    /\ UNCHANGED nb

\* ------------------------------------------------------- the health checker
\* The zero time.Time a missing lastCheck entry (or the unset local) reads as.
ZeroTime == -1
\* time.Since(t): the zero time lies further back than any interval.
Since(t) == IF t = ZeroTime THEN now + RecoveryInterval + 1 ELSE now - t

BackendById(id) == backends[CHOOSE i \in DOMAIN backends : backends[i].id = id]

\* go c.checkBackend(backend), started by the tick at time t.
NewProbe(id, t) ==
    [b |-> id, born |-> t, pc |-> "start", wasHealthy |-> TRUE,
     lastCheck |-> ZeroTime, outcome |-> "none"]
ProbeKey(p) == <<p.b, p.born>>

\* <-ticker.C: checkAllBackends starts one checkBackend goroutine per backend
\* (GetBackends takes SRR.mu.RLock).
Tick ==
    /\ now < MaxTime
    /\ nb.pc = "idle"
    /\ now' = now + 1
    /\ probes' = probes \cup {NewProbe(id, now + 1) : id \in Ids(backends)}
    /\ UNCHANGED <<failures, lastCheck, cmu, backends>>

\* c.mu.Lock(); wasHealthy = backend.IsHealthy(); if !wasHealthy { lastCheck =
\* c.lastCheck[backend.URL] }; c.mu.Unlock()
ProbeRead(p) ==
    /\ p.pc = "start"
    /\ cmu = <<>>
    /\ LET b == BackendById(p.b)
           q == [p EXCEPT !.pc = "decide",
                          !.wasHealthy = IsHealthy(b),
                          !.lastCheck = IF IsHealthy(b) THEN ZeroTime
                                        ELSE lastCheck[b.URL]]
       IN probes' = (probes \ {p}) \cup {q}
    /\ UNCHANGED <<now, failures, lastCheck, cmu, backends>>

\* if !wasHealthy && time.Since(lastCheck) < c.recoveryInterval { return }
Skipped(p) == ~p.wasHealthy /\ Since(p.lastCheck) < RecoveryInterval

\* The recovery test, then the request is sent (client.Do begins).
ProbeDecide(p) ==
    /\ p.pc = "decide"
    /\ probes' = IF Skipped(p) THEN probes \ {p}
                 ELSE (probes \ {p}) \cup {[p EXCEPT !.pc = "inflight"]}
    /\ UNCHANGED <<now, failures, lastCheck, cmu, backends>>

\* client.Do returns: an error (http.NewRequest failing takes the same path),
\* or a response with some status.
ProbeResult(p, outcome) ==
    /\ p.pc = "inflight"
    /\ probes' = (probes \ {p}) \cup
                    {[p EXCEPT !.outcome = outcome,
                               !.pc = IF outcome = "error" THEN "failed" ELSE "resp"]}
    /\ UNCHANGED <<now, failures, lastCheck, cmu, backends>>

\* A response arrived: c.mu.Lock(); defer c.mu.Unlock();
\* c.lastCheck[backend.URL] = time.Now()
ProbeLock(p) ==
    /\ p.pc = "resp"
    /\ cmu = <<>>
    /\ cmu' = ProbeKey(p)
    /\ lastCheck' = [lastCheck EXCEPT ![BackendById(p.b).URL] = now]
    /\ probes' = (probes \ {p}) \cup {[p EXCEPT !.pc = "locked"]}
    /\ UNCHANGED <<now, failures, backends>>

ReachedOneBelow(n) == n >= FailureThreshold - 1
\* c.failures[backend.URL] >= c.failureThreshold
ReachedThreshold(n) == n >= FailureThreshold

\* handleFailure between its Lock and Unlock: the new failures map and flag.
HandleFailure(b) ==
    LET n == failures[b.URL] + 1
    IN [failures |-> [failures EXCEPT ![b.URL] = n],
        healthy |-> IF ReachedThreshold(n) /\ IsHealthy(b) THEN FALSE ELSE b.Healthy]

\* handleSuccess between its Lock and Unlock: the new failures map and flag.
HandleSuccess(b) ==
    [failures |-> IF failures[b.URL] > 0 THEN [failures EXCEPT ![b.URL] = 0]
                  ELSE failures,
     healthy |-> IF ~IsHealthy(b) THEN TRUE ELSE b.Healthy]

\* handleFailure / handleSuccess: c.mu.Lock() must be granted first, whoever
\* holds c.mu; then the bookkeeping, the unlock, and checkBackend returns
\* (releasing what it holds itself).
ProbeHandle(p) ==
    /\ p.pc \in {"failed", "locked"}
    /\ cmu = <<>>
    /\ LET b == BackendById(p.b)
           r == IF p.outcome = "status200" THEN HandleSuccess(b) ELSE HandleFailure(b)
       IN /\ failures' = r.failures
          /\ backends' = [i \in DOMAIN backends |->
                            IF backends[i].id = p.b
                            THEN [backends[i] EXCEPT !.Healthy = r.healthy]
                            ELSE backends[i]]
    /\ cmu' = <<>>
    /\ probes' = probes \ {p}
    /\ UNCHANGED <<now, lastCheck>>


\* --------------------------------------------------------- the rate limiter
\* Tokens are counted in units of 1/RefillTicks of a token, so that one clock
\* tick refills one unit: limit = requests_per_minute / 60 tokens per second.
OneToken == RefillTicks
Capacity == Burst * RefillTicks

Min(a, b) == IF a < b THEN a ELSE b

\* rate.NewLimiter(r.limit, r.burst) inside a clientLimiter made at time t: a
\* full bucket. The last four fields are history: the calls and grants at the
\* instant it was made, and those of the time one token later.
NewBucket(ip, t) ==
    [ip |-> ip, tokens |-> Capacity, last |-> t, lastSeen |-> t,
     born |-> t, birthCalls |-> 0, birthGrants |-> 0,
     laterCalls |-> 0, laterGrants |-> 0]

\* rate.Limiter.advance: the tokens at time t, limit * elapsed added, capped at
\* burst.
Advance(bk, t) ==
    LET last == IF t < bk.last THEN t ELSE bk.last
    IN Min(Capacity, bk.tokens + (t - last))

\* rate.Limiter.Allow() at time t: whether a token is there.
RateOk(bk, t) == Burst >= 1 /\ Advance(bk, t) - OneToken >= 0

\* rate.Limiter.Allow() at time t: the limiter afterwards (only a granted call
\* updates it), with the history of the call.
RateAllow(bk, t) ==
    LET ok == RateOk(bk, t)
        taken == IF ok THEN [bk EXCEPT !.tokens = Advance(bk, t) - OneToken, !.last = t]
                 ELSE bk
        g == IF ok THEN 1 ELSE 0
    IN IF t = bk.born
       THEN [taken EXCEPT !.birthCalls = @ + 1, !.birthGrants = @ + g]
       ELSE IF t = bk.born + RefillTicks
            THEN [taken EXCEPT !.laterCalls = @ + 1, !.laterGrants = @ + g]
            ELSE [taken EXCEPT !.laterGrants = @ + g]

\* One running Allow call: where it stands, its IP and the clientLimiter it
\* looked up (0 when it found none).
NewCall(ip, id) ==
    [pc |-> IF id = 0 THEN "create" ELSE "stamp", ip |-> ip, bucket |-> id]
Return(c) == callers (-) SetToBag({c})
Running == BagToSet(callers)

\* The clientLimiter objects still reachable: from the map or from a running call.
Reachable(lims, cs) ==
    {lims[ip] : ip \in Ips} \cup {c.bucket : c \in BagToSet(cs)}
Collect(bks, lims, cs) ==
    [id \in (DOMAIN bks) \cap Reachable(lims, cs) |-> bks[id]]

Grant(ip, ok) ==
    IF ok THEN [granted EXCEPT ![ip][now] = @ + 1] ELSE granted

\* Allow, lines 33-35: r.mutex.RLock(); limiter, exists := r.limiters[ip];
\* r.mutex.RUnlock()
AllowLookup(ip) ==
    /\ BagCardinality(callers) < MaxCallers
    /\ allows.started < MaxAllows
    /\ allows' = [allows EXCEPT !.started = @ + 1]
    /\ callers' = callers (+) SetToBag({NewCall(ip, limiters[ip])})
    /\ UNCHANGED <<limiters, buckets, granted>>

\* limiter, exists := r.limiters[ip]
Exists(id) == id # 0
NotLookedAgain(id) == FALSE
\* createNewLimiter, line 52: the second look, under the write lock.
ExistsNow(id) == Exists(id)

FirstAllowFree(ip, t) == [NewBucket(ip, t) EXCEPT !.birthCalls = 1, !.birthGrants = 1]
\* createNewLimiter, lines 57-63: the new clientLimiter after its first Allow().
FirstAllow(ip, t) == RateAllow(NewBucket(ip, t), t)

\* createNewLimiter under r.mutex.Lock(): the entry found on the second look is
\* stamped and asked, else a clientLimiter is made, stored and asked.
AllowCreate(c) ==
    /\ c.pc = "create"
    /\ LET id == limiters[c.ip]
           fresh == allows.made + 1
       IN IF ExistsNow(id)
          THEN LET bk == RateAllow([buckets[id] EXCEPT !.lastSeen = now], now)
               IN /\ granted' = Grant(c.ip, RateOk(buckets[id], now))
                  /\ buckets' = Collect([buckets EXCEPT ![id] = bk], limiters, Return(c))
                  /\ UNCHANGED <<limiters, allows>>
          ELSE LET lims == [limiters EXCEPT ![c.ip] = fresh]
               IN /\ granted' = Grant(c.ip, RateOk(NewBucket(c.ip, now), now))
                  /\ limiters' = lims
                  /\ allows' = [allows EXCEPT !.made = fresh]
                  /\ buckets' = Collect([id2 \in (DOMAIN buckets) \cup {fresh} |->
                                            IF id2 = fresh THEN FirstAllow(c.ip, now)
                                            ELSE buckets[id2]], lims, Return(c))
    /\ callers' = Return(c)

\* Allow, lines 41-43: r.mutex.Lock(); limiter.lastSeen = time.Now();
\* r.mutex.Unlock()
AllowStamp(c) ==
    /\ c.pc = "stamp"
    /\ buckets' = [buckets EXCEPT ![c.bucket].lastSeen = now]
    /\ callers' = Return(c) (+) SetToBag({[c EXCEPT !.pc = "take"]})
    /\ UNCHANGED <<limiters, allows, granted>>

\* Allow, line 45: return limiter.limiter.Allow()
AllowTake(c) ==
    /\ c.pc = "take"
    /\ granted' = Grant(c.ip, RateOk(buckets[c.bucket], now))
    /\ buckets' = Collect([buckets EXCEPT ![c.bucket] = RateAllow(buckets[c.bucket], now)],
                          limiters, Return(c))
    /\ callers' = Return(c)
    /\ UNCHANGED <<limiters, allows>>

StaleAtTimeout(bk, t) == t - bk.lastSeen >= IdleTimeout
\* now.Sub(limiter.lastSeen) > idleTimeout
Stale(bk, t) == t - bk.lastSeen > IdleTimeout

\* The entries CleanupStale deletes at this moment.
StaleIps == {ip \in Ips : Exists(limiters[ip]) /\ Stale(buckets[limiters[ip]], now)}

NotRun == [ran |-> FALSE, count |-> 0]
NoFirsts == [calls |-> 0, asked |-> {}]
\* Limiter.Size(): len(r.limiters)
LimiterSize == Cardinality({ip \in Ips : Exists(limiters[ip])})

\* CleanupStale(idleTimeout) under r.mutex.Lock(): every stale entry is deleted
\* and counted.
CleanupStale ==
    /\ LET lims == [ip \in Ips |-> IF ip \in StaleIps THEN 0 ELSE limiters[ip]]
       IN /\ limiters' = lims
          /\ buckets' = Collect(buckets, lims, callers)
    /\ reaped' = [ran |-> TRUE, count |-> Cardinality(StaleIps)]
    /\ UNCHANGED <<callers, allows, granted>>

\* Time passes.
Elapse ==
    /\ now < MaxClock
    /\ now' = now + 1


\* ---------------------------------------------------------------- the cache
NoEntry == [set |-> FALSE]
\* NewEntry(key, value, header, ttl) at time t.
NewEntry(key, value, header, d, t) ==
    [set |-> TRUE, Key |-> key, Value |-> value, Header |-> header,
     CreatedAt |-> t, ExpiresAt |-> t + d]

\* Entry.IsExpired at time t: time.Now().After(e.ExpiresAt)
IsExpired(e, t) == t > e.ExpiresAt

Miss == [found |-> FALSE]
\* Cache.Get(key) at time t: (entry.Value, entry.Header, true), or a miss when
\* the key has no entry or the entry is expired.
CacheGet(key, t) ==
    IF ~entries[key].set THEN Miss
    ELSE IF IsExpired(entries[key], t) THEN Miss
    ELSE [found |-> TRUE, value |-> entries[key].Value, header |-> entries[key].Header]

\* Cache.Size(): len(c.entries)
CacheSize(es) == Cardinality({k \in Keys : es[k].set})

NoOp == [op |-> "none"]
NoSet == [sets |-> 0]

Get(key) ==
    /\ got' = [op |-> "get", key |-> key, result |-> CacheGet(key, now)]
    /\ UNCHANGED <<entries, ttl, written>>

KeepsEntry(key, value, header, d, t) ==
    IF entries[key].set THEN entries[key] ELSE NewEntry(key, value, header, d, t)
\* Cache.Set, lines 42-43: entry := NewEntry(key, value, header, c.ttl);
\* c.entries[key] = entry
Stored(key, value, header, d, t) == NewEntry(key, value, header, d, t)

Set(key, value, header) ==
    /\ entries' = [entries EXCEPT ![key] = Stored(key, value, header, ttl, now)]
    /\ got' = [op |-> "set", key |-> key]
    /\ written' = [written EXCEPT ![key] =
                      [sets |-> Min(@.sets + 1, 2), value |-> value,
                       header |-> header, at |-> now]]
    /\ UNCHANGED ttl

Delete(key) ==
    /\ entries' = [entries EXCEPT ![key] = NoEntry]
    /\ got' = [op |-> "delete", key |-> key]
    /\ written' = [written EXCEPT ![key] = NoSet]
    /\ UNCHANGED ttl

SweptAtExpiry(e, t) == t >= e.ExpiresAt
\* CleanupExpired, line 61: now.After(entry.ExpiresAt)
Swept(e, t) == t > e.ExpiresAt

\* CleanupExpired: every entry past its expiry is deleted and counted.
CleanupExpired ==
    LET gone == {k \in Keys : entries[k].set /\ Swept(entries[k], now)}
    IN /\ entries' = [k \in Keys |-> IF k \in gone THEN NoEntry ELSE entries[k]]
       /\ got' = [op |-> "cleanup", count |-> Cardinality(gone)]
       /\ UNCHANGED <<ttl, written>>

Clear ==
    /\ entries' = [k \in Keys |-> NoEntry]
    /\ got' = [op |-> "clear"]
    /\ written' = [k \in Keys |-> NoSet]
    /\ UNCHANGED ttl

\* ------------------------------------------------- the request pipeline
NoRequest == [pc |-> "idle"]
\* getCacheKey(r): fmt.Sprintf("%s:%s", r.Method, r.URL.String())
getCacheKey(r) == r.method \o ":" \o r.url

\* Chain, lines 410-416: a request enters with X-Request-Id set and nothing
\* sent. sent lists the status codes written; did and taken are history: what
\* the request has called, and the tokens its Allow took from the bucket.
NewRequest(ip, method, url) ==
    [pc |-> "limit", ip |-> ip, method |-> method, url |-> url,
     header |-> [RequestId |-> <<"id">>], sent |-> <<>>, body |-> "",
     did |-> {}, taken |-> 0, backend |-> 0, up |-> "none"]

AddFirstValues(dst, src) ==
    [n \in (DOMAIN dst) \cup (DOMAIN src) |->
        (IF n \in DOMAIN dst THEN dst[n] ELSE <<>>) \o
        (IF n \in DOMAIN src THEN <<src[n][1]>> ELSE <<>>)]
\* dst.Add(key, value) for every value of every key of src.
AddHeaders(dst, src) ==
    [n \in (DOMAIN dst) \cup (DOMAIN src) |->
        (IF n \in DOMAIN dst THEN dst[n] ELSE <<>>) \o
        (IF n \in DOMAIN src THEN src[n] ELSE <<>>)]

\* The request is answered: status (written explicitly, or implied by the
\* first Write), headers added and body.
Answer(r, status, header, body) ==
    [r EXCEPT !.pc = "done", !.sent = Append(@, status),
              !.header = AddHeaders(@, header), !.body = body]

\* The request of slot s has made a step: an answered request leaves its slot.
Step(s, q) ==
    /\ reqs' = [reqs EXCEPT ![s] = IF q.pc = "done" THEN NoRequest ELSE q]
    /\ answered' = IF q.pc = "done" THEN q ELSE NoRequest

\* A request arrives (in the lowest free slot).
Arrive(s, ip, method, url) ==
    /\ reqs[s].pc = "idle"
    /\ \A s2 \in 1..s - 1 : reqs[s2].pc # "idle"
    /\ pipe.started < MaxRequests
    /\ pipe' = [pipe EXCEPT !.started = @ + 1]
    /\ reqs' = [reqs EXCEPT ![s] = NewRequest(ip, method, url)]
    /\ answered' = NoRequest
    /\ UNCHANGED <<limiterVars, cacheVars, srrVars>>

\* The tokens the IP's bucket has at this moment (a bucket not yet made is full).
Available(lims, bks, ip) ==
    IF Exists(lims[ip]) THEN Advance(bks[lims[ip]], now) ELSE Capacity

NeverDenied(ok) == FALSE
\* Chain, line 437: if !m.limiter.Allow(ip)
Denied(ok) == ~ok

\* Chain, lines 435-445: the rate-limit gate. Allow runs here in one piece: the
\* lookup, then createNewLimiter, or the lastSeen stamp and limiter.Allow().
Limit(s) ==
    /\ reqs[s].pc = "limit"
    /\ LET r == reqs[s]
           id == limiters[r.ip]
           fresh == allows.made + 1
           ok == RateOk(IF Exists(id) THEN buckets[id] ELSE NewBucket(r.ip, now), now)
           lims == IF Exists(id) THEN limiters ELSE [limiters EXCEPT ![r.ip] = fresh]
           bks == IF Exists(id)
                  THEN [buckets EXCEPT ![id] =
                           RateAllow([buckets[id] EXCEPT !.lastSeen = now], now)]
                  ELSE [id2 \in (DOMAIN buckets) \cup {fresh} |->
                           IF id2 = fresh THEN FirstAllow(r.ip, now) ELSE buckets[id2]]
           took == Available(limiters, buckets, r.ip) - Available(lims, bks, r.ip)
       IN IF ~pipe.limited
          THEN /\ Step(s, [r EXCEPT !.pc = "cache"])
               /\ UNCHANGED <<limiters, buckets, allows, granted>>
          ELSE /\ limiters' = lims
               /\ buckets' = bks
               /\ allows' = [allows EXCEPT !.made = IF Exists(id) THEN @ ELSE fresh]
               /\ UNCHANGED granted
               /\ LET q == [r EXCEPT !.did = @ \cup {"allow"}, !.taken = took]
                  IN Step(s, IF Denied(ok)
                             THEN Answer(q, 429, <<>>, "Rate limit exceeded")
                             ELSE [q EXCEPT !.pc = "cache"])
    /\ UNCHANGED <<callers, reaped, firsts, cacheVars, srrVars, pipe>>

\* Chain, lines 447-464: the cache lookup of a GET; a hit is answered from the
\* cache, anything else goes on to the handler.
Lookup(s) ==
    /\ reqs[s].pc = "cache"
    /\ LET r == reqs[s]
           res == CacheGet(getCacheKey(r), now)
       IN Step(s, IF pipe.cacheEnabled /\ r.method = "GET"
                  THEN LET q == [r EXCEPT !.did = @ \cup {"get"}]
                       IN IF res.found
                          THEN Answer(q, 200, res.header, res.value)
                          ELSE [q EXCEPT !.pc = "serve"]
                  ELSE [r EXCEPT !.pc = "serve"])
    /\ UNCHANGED <<limiterVars, cacheVars, srrVars, pipe>>

AlwaysBadGateway(failure) == 502
\* The http.Error calls of ServeHTTP: 503 for ErrNoHealthyBackends (line 257),
\* 502 for url.Parse, NewRequestWithContext and client.Do failures.
ErrorStatus(failure) == IF failure = "nobackend" THEN 503 ELSE 502
ErrorText(failure) ==
    IF failure = "nobackend" THEN "Service Unavailable" ELSE "Bad Gateway"
Fail(r, failure) ==
    Answer([r EXCEPT !.up = failure], ErrorStatus(failure), <<>>, ErrorText(failure))

\* What the NextBackend call of this request came to.
AfterNext(r) ==
    IF ret'.kind = "none" THEN [r EXCEPT !.pc = "balancing"]
    ELSE IF ret'.kind = "err" THEN Fail(r, "nobackend")
    ELSE [r EXCEPT !.pc = "upstream", !.backend = ret'.id]

\* ServeHTTP, line 252: the handler calls NextBackend, which takes SRR.mu.
Serve(s) ==
    /\ reqs[s].pc = "serve"
    /\ NBLock
    /\ Step(s, AfterNext([reqs[s] EXCEPT !.did = @ \cup {"dispatch", "next"}]))
    /\ UNCHANGED <<limiterVars, cacheVars, pipe>>

\* The NextBackend call of the request goes on, and returns at line 252-259.
Balance(s) ==
    /\ reqs[s].pc = "balancing"
    /\ IF nb.pc = "loop1" THEN NBLoop1 ELSE NBLoop2
    /\ Step(s, AfterNext(reqs[s]))
    /\ UNCHANGED <<limiterVars, cacheVars, pipe>>

\* What can become of the upstream call: url.Parse fails, the request cannot be
\* built, client.Do fails, or a response arrives whose body can or cannot be
\* read to the end.
UpstreamFailures == {"parse", "build", "call"}
Replies == {[body |-> "one", header |-> [Vary |-> <<"a", "b">>]],
            [body |-> "two", header |-> [Vary |-> <<"c">>]]}
Responses ==
    {[status |-> st, body |-> rp.body, header |-> rp.header, read |-> rd] :
        st \in {200, 500}, rp \in Replies, rd \in BOOLEAN}

CacheableAnyStatus(enabled, method, status) == enabled /\ method = "GET"
\* ServeHTTP, line 330: h.cacheEnabled && r.Method == http.MethodGet &&
\* resp.StatusCode == http.StatusOK
Cacheable(enabled, method, status) == enabled /\ method = "GET" /\ status = 200

\* ServeHTTP, lines 261-305: one of the 502 paths.
UpstreamFails(s, failure) ==
    /\ reqs[s].pc = "upstream"
    /\ Step(s, Fail(reqs[s], failure))
    /\ UNCHANGED <<limiterVars, cacheVars, srrVars, pipe>>

\* ServeHTTP, lines 306-338: the response headers and status are relayed, the
\* body is read, stored in the cache when cacheable, and written.
UpstreamResponds(s, resp) ==
    /\ reqs[s].pc = "upstream"
    /\ LET r == [reqs[s] EXCEPT !.up = IF resp.read THEN "response" ELSE "unread"]
           key == getCacheKey(r)
           store == resp.read /\ Cacheable(pipe.cacheEnabled, r.method, resp.status)
       IN /\ Step(s, Answer([r EXCEPT !.did = IF store THEN @ \cup {"set"} ELSE @],
                             resp.status, resp.header,
                             IF resp.read THEN resp.body ELSE ""))
          /\ entries' = IF store
                        THEN [entries EXCEPT ![key] =
                                 Stored(key, resp.body, resp.header, ttl, now)]
                        ELSE entries
    /\ UNCHANGED <<limiterVars, ttl, got, written, srrVars, pipe>>

\* --------------------------------------------------------- the configuration
\* A Config as yaml.Unmarshal leaves it: a key the file omits keeps its zero
\* value. Durations are in seconds.
NoError == "ok"
\* The files os.Stat finds.
Files == {"server.crt", "server.key"}

\* Validate, lines 106-113: the first backend without a URL or with a weight
\* that is not positive.
BadBackends(c) ==
    {i \in DOMAIN c.Backends : c.Backends[i].URL = "" \/ c.Backends[i].Weight <= 0}
FirstBad(c) == CHOOSE i \in BadBackends(c) : \A j \in BadBackends(c) : i <= j

\* Config.Validate: the first complaint, or none.
Validate(c) ==
    IF c.Server.Host = "" THEN "server host cannot be empty"
    ELSE IF c.Server.HTTPPort <= 0 \/ c.Server.HTTPPort > 65535 THEN "invalid HTTP port"
    ELSE IF c.Server.HTTPSPort <= 0 \/ c.Server.HTTPSPort > 65535 THEN "invalid HTTPS port"
    ELSE IF c.TLS.Enabled /\ c.Server.HTTPPort = c.Server.HTTPSPort
         THEN "HTTP and HTTPS ports must be different"
    ELSE IF Len(c.Backends) = 0 THEN "at least one backend is required"
    ELSE IF BadBackends(c) # {}
         THEN IF c.Backends[FirstBad(c)].URL = "" THEN "backend: URL cannot be empty"
              ELSE "backend: weight must be positive"
    ELSE IF c.TLS.Enabled /\ c.TLS.CertFile = ""
         THEN "TLS cert_file is required when TLS is enabled"
    ELSE IF c.TLS.Enabled /\ c.TLS.KeyFile = ""
         THEN "TLS key_file is required when TLS is enabled"
    ELSE IF c.TLS.Enabled /\ c.TLS.CertFile \notin Files THEN "TLS cert file does not exist"
    ELSE IF c.TLS.Enabled /\ c.TLS.KeyFile \notin Files THEN "TLS key file does not exist"
    ELSE IF c.HealthCheck.Interval <= 0 THEN "health check interval must be positive"
    ELSE IF c.HealthCheck.Timeout <= 0 THEN "health check timeout must be positive"
    ELSE IF c.HealthCheck.FailureThreshold <= 0
         THEN "health check failure threshold must be positive"
    ELSE IF c.HealthCheck.RecoveryInterval <= 0
         THEN "health check recovery interval must be positive"
    ELSE IF c.Cache.TTL < 0 THEN "cache TTL cannot be negative"
    ELSE IF c.RateLimit.RequestsPerMinute <= 0
         THEN "rate limit requests per minute must be positive"
    ELSE IF c.RateLimit.Burst <= 0 THEN "rate limit burst must be positive"
    ELSE NoError

\* if field == zero value { field = default }
OrDefault(v, zero, default) == IF v = zero THEN default ELSE v

\* Config.setDefaults
setDefaults(c) ==
    [c EXCEPT
        !.Server.HTTPPort = OrDefault(@, 0, 8080),
        !.Server.HTTPSPort = OrDefault(@, 0, 8443),
        !.Server.ReadTimeout = OrDefault(@, 0, 10),
        !.Server.WriteTimeout = OrDefault(@, 0, 10),
        !.HealthCheck.Interval = OrDefault(@, 0, 5),
        !.HealthCheck.Timeout = OrDefault(@, 0, 2),
        !.HealthCheck.Endpoint = OrDefault(@, "", "/healthz"),
        !.HealthCheck.FailureThreshold = OrDefault(@, 0, 3),
        !.HealthCheck.RecoveryInterval = OrDefault(@, 0, 15),
        !.Cache.TTL = OrDefault(@, 0, 60),
        !.RateLimit.RequestsPerMinute = OrDefault(@, 0, 600),
        !.RateLimit.Burst = OrDefault(@, 0, 100),
        !.Logging.Level = OrDefault(@, "", "info"),
        !.Logging.Format = OrDefault(@, "", "json")]

NotLoaded == [done |-> FALSE]
\* config.Load once the file is read and parsed: Validate, then setDefaults.
Load(c) ==
    IF Validate(c) # NoError
    THEN [done |-> TRUE, ok |-> FALSE, err |-> "config validation failed: " \o Validate(c)]
    ELSE [done |-> TRUE, ok |-> TRUE, cfg |-> setDefaults(c)]

\* The configuration files explored: the server, TLS and backend sections in a
\* few variants, every optional value omitted or given.
ServerInputs ==
    {[Host |-> h, HTTPPort |-> p, HTTPSPort |-> 8443, ReadTimeout |-> 0, WriteTimeout |-> 30] :
        h \in {"", "0.0.0.0"}, p \in {0, 8080, 8443}}
TLSInputs ==
    {[Enabled |-> FALSE, CertFile |-> "", KeyFile |-> ""],
     [Enabled |-> TRUE, CertFile |-> "server.crt", KeyFile |-> "server.key"],
     [Enabled |-> TRUE, CertFile |-> "server.crt", KeyFile |-> "lost.key"]}
BackendInputs ==
    {<<>>,
     <<[URL |-> "a", Weight |-> 1]>>,
     <<[URL |-> "a", Weight |-> 1], [URL |-> "", Weight |-> 0]>>,
     <<[URL |-> "a", Weight |-> 0]>>}
HealthCheckInputs ==
    {[Interval |-> i, Timeout |-> t, Endpoint |-> e, FailureThreshold |-> f,
      RecoveryInterval |-> r] :
        i \in {0, 1}, t \in {0, 1}, e \in {"", "/up"}, f \in {0, 1}, r \in {0, 1}}
CacheInputs == {[Enabled |-> TRUE, TTL |-> t] : t \in {-1, 0, 1}}
RateLimitInputs ==
    {[Enabled |-> TRUE, RequestsPerMinute |-> r, Burst |-> b] : r \in {0, 1}, b \in {0, 1}}
LoggingInputs == {[Level |-> l, Format |-> f] : l \in {"", "debug"}, f \in {"", "console"}}
ConfigInputs ==
    {[Server |-> sv, TLS |-> tl, Backends |-> bs, HealthCheck |-> hc, Cache |-> ca,
      RateLimit |-> rl, Logging |-> lg] :
        sv \in ServerInputs, tl \in TLSInputs, bs \in BackendInputs,
        hc \in HealthCheckInputs, ca \in CacheInputs, rl \in RateLimitInputs,
        lg \in LoggingInputs}

\* config.Load(path) on a file that can be read and parsed.
LoadConfig ==
    /\ ~loaded.done
    /\ loaded' = Load(cfg)
    /\ UNCHANGED cfg

\* ------------------------------------------------- history of the balancer
\* NextBackend calls the exploration follows in the current phase.
CallBudget ==
    IF phase = "race" THEN MaxRaceCalls
    ELSE IF phase = "pool" THEN MaxPoolCalls ELSE MaxCalls

\* What the call sees when it acquires SRR.mu.
TrackLock ==
    /\ stableH' = HealthyIds(backends)
    /\ stableU' = UnhealthyIds(backends)
    /\ atLock' = PoolWeights(backends)

\* The last n elements of a sequence.
LastOf(s, n) == IF Len(s) <= n THEN s ELSE SubSeq(s, Len(s) - n + 1, Len(s))

\* Count the call when the step returns and, in the phases of a single client,
\* the backend it returned.
TrackReturn ==
    IF ret'.kind = "none"
    THEN UNCHANGED <<calls, cnt, recent>>
    ELSE /\ calls' = calls + 1
         /\ cnt' = IF ret'.kind = "ok" /\ phase \notin {"race", "pool"}
                  THEN [cnt EXCEPT ![ret'.id] = @ + 1] ELSE cnt
         /\ recent' = IF ret'.kind = "ok" /\ phase \notin {"race", "pool"}
                     THEN LastOf(Append(recent, ret'.id), Remembered) ELSE recent

CallLock ==
    /\ calls < CallBudget
    /\ NBLock
    /\ TrackLock
    /\ TrackReturn
    /\ UNCHANGED <<phase, downId, downAtZero, upAtZero, flips>>

CallLoop1 ==
    /\ NBLoop1
    /\ TrackReturn
    /\ UNCHANGED <<phase, downId, downAtZero, upAtZero, stableH, stableU, atLock, flips>>

CallLoop2 ==
    /\ NBLoop2
    /\ TrackReturn
    /\ UNCHANGED <<phase, downId, downAtZero, upAtZero, stableH, stableU, atLock, flips>>

\* A client of the SRR API marks a backend by URL (srr_test.go): the phases
\* followed are a fresh pool, one backend marked unhealthy, and that backend
\* marked healthy again.
ClientSetHealthy ==
    \E url \in Urls, healthy \in BOOLEAN :
        LET i == FirstWithUrl(backends, url)
            changes == i # 0 /\ backends[i].Healthy # healthy
        IN /\ changes => ((phase = "fresh" /\ ~healthy) \/ (phase = "down" /\ healthy))
           /\ SRRSetHealthy(url, healthy)
           /\ IF ~changes
              THEN UNCHANGED histVars
              ELSE /\ phase' = IF healthy THEN "recovered" ELSE "down"
                   /\ downId' = IF healthy THEN downId ELSE backends[i].id
                   /\ downAtZero' = IF healthy THEN downAtZero ELSE AllZero(backends)
                   /\ upAtZero' = IF healthy THEN AllZero(backends) ELSE upAtZero
                   /\ calls' = 0
                   /\ cnt' = ZeroCounts
                   /\ recent' = <<>>
                   /\ UNCHANGED <<stableH, stableU, atLock, flips>>

\* The health checker (or any holder of a *Backend) flips a flag at any moment,
\* also between two steps of a NextBackend call.
CheckerSetHealthy ==
    \E id \in Ids(backends), healthy \in BOOLEAN :
        /\ flips < MaxFlips
        /\ BackendSetHealthy(id, healthy)
        /\ LET changed == \E i \in DOMAIN backends :
                              backends[i].id = id /\ backends[i].Healthy # healthy
           IN /\ flips' = IF changed THEN flips + 1 ELSE flips
              /\ IF nb.pc # "idle" /\ changed
                 THEN /\ stableH' = stableH \ {id}
                      /\ stableU' = stableU \ {id}
                 ELSE UNCHANGED <<stableH, stableU>>
        /\ UNCHANGED <<phase, downId, downAtZero, upAtZero, calls, cnt, recent, atLock>>

\* -------------------------------------------------- history of the checker
restHealth == <<nb, ret, histVars, limiterVars, cacheVars, proxyVars, configVars, lifeVars>>

\* The ticks followed: those that leave at most MaxUnfinished goroutines
\* running.
CheckTick ==
    /\ Cardinality(probes) + Len(backends) <= MaxUnfinished
    /\ Tick
    /\ UNCHANGED <<restHealth, probeHist>>

CheckRead ==
    \E p \in probes :
        /\ ProbeRead(p)
        /\ UNCHANGED <<restHealth, probeHist>>

\* Remember when a probe of a backend read as unhealthy is sent.
CheckDecide ==
    \E p \in probes :
        /\ ProbeDecide(p)
        /\ downProbe' = IF ~Skipped(p) /\ ~p.wasHealthy
                        THEN [downProbe EXCEPT ![p.b] = now] ELSE downProbe
        /\ UNCHANGED <<restHealth, streak>>

CheckResult ==
    \E p \in probes, outcome \in Outcomes :
        /\ ProbeResult(p, outcome)
        /\ UNCHANGED <<restHealth, probeHist>>

\* A response is recorded when checkBackend takes c.mu for it.
CheckLock ==
    \E p \in probes :
        /\ ProbeLock(p)
        /\ streak' = [streak EXCEPT ![p.b] = IF p.outcome = "status200" THEN 0 ELSE @ + 1]
        /\ UNCHANGED <<restHealth, downProbe>>

\* A failed exchange is recorded when handleFailure takes c.mu for it.
CheckHandle ==
    \E p \in probes :
        /\ ProbeHandle(p)
        /\ streak' = IF p.pc = "failed" THEN [streak EXCEPT ![p.b] = @ + 1] ELSE streak
        /\ UNCHANGED <<restHealth, downProbe>>

\* ------------------------------------------------------ start and shutdown
\* The Checker and the CleanupManager each run one loop goroutine; the Server
\* has an HTTP listener and, with TLS enabled, an HTTPS listener.
Workers == {"checker", "reaper"}
Listeners == {"http", "https"}
\* Who calls Server.Shutdown: main after a signal, Server.Start after ctx.Done.
Invokers == {"main", "start"}
\* Who else calls Stop on a worker.
DirectCallers == <<"first", "second", "third">>

\* NewChecker / NewCleanupManager: stopCh open, stopOnce unused, wg at 0, no
\* loop started. The last three fields are history: the Stop calls made
\* directly, those that have returned, and the most that ran at once.
NewWorker ==
    [loop |-> "none", closed |-> FALSE, once |-> FALSE, wg |-> 0,
     direct |-> 0, returned |-> 0, together |-> 0]
\* Server.server / Server.tlsServer before Start sets it.
NoListener == [srv |-> "nil", serve |-> "none"]
NotStarted == [pc |-> "load", errCh |-> 0]
NotInvoked == [pc |-> "idle", found |-> {}, ran |-> {}, overlapped |-> FALSE]

TLSEnabled == loaded.cfg.TLS.Enabled
\* NewServer, lines 578-580: the cleanup manager exists when the limiter does.
HasCleanupManager == pipe.limited

\* The steps of Server.Start in order, and the ones this configuration takes.
StartOrder ==
    <<"load", "build", "buildTLS", "checker", "reaper", "listen", "listenTLS", "select">>
Applies(step) ==
    CASE step \in {"buildTLS", "listenTLS"} -> TLSEnabled
      [] step = "reaper" -> HasCleanupManager
      [] OTHER -> TRUE
Position(step) == CHOOSE i \in DOMAIN StartOrder : StartOrder[i] = step
Following(step) ==
    StartOrder[CHOOSE i \in DOMAIN StartOrder :
                  /\ i > Position(step)
                  /\ Applies(StartOrder[i])
                  /\ \A j \in (Position(step) + 1)..(i - 1) : ~Applies(StartOrder[j])]

\* Start, lines 589-596: with TLS enabled the certificate is loaded, which can
\* fail; then Start returns the error.
StartLoad ==
    /\ starter.pc = "load"
    /\ \E loads \in BOOLEAN :
          /\ ~TLSEnabled => loads
          /\ starter' = [starter EXCEPT !.pc = IF loads THEN Following("load") ELSE "returned"]
    /\ UNCHANGED <<ctx, workers, listeners, stopCalls, shutdowns, joined>>

\* Start, lines 598-613: s.server and s.tlsServer are set.
StartBuild ==
    /\ starter.pc \in {"build", "buildTLS"}
    /\ LET l == IF starter.pc = "build" THEN "http" ELSE "https"
       IN listeners' = [listeners EXCEPT ![l].srv = "built"]
    /\ starter' = [starter EXCEPT !.pc = Following(starter.pc)]
    /\ UNCHANGED <<ctx, workers, stopCalls, shutdowns, joined>>

\* Checker.Start / CleanupManager.Start: wg.Add(1) and the loop goroutine.
WorkerStart(w) ==
    [workers EXCEPT ![w].wg = @ + 1, ![w].loop = "running"]

\* Start called once by the holder of the Checker or the CleanupManager.
Start(w) ==
    /\ workers[w].loop = "none"
    /\ workers' = WorkerStart(w)
    /\ UNCHANGED <<ctx, listeners, starter, stopCalls, shutdowns, joined>>

\* The holder cancels the context it passed to Checker.Start.
Cancel ==
    /\ ~ctx
    /\ ctx' = TRUE
    /\ UNCHANGED <<workers, listeners, starter, stopCalls, shutdowns, joined>>

\* Start, lines 615-618: s.healthChecker.Start(ctx); s.cleanupManager.Start()
StartWorkers ==
    /\ starter.pc \in {"checker", "reaper"}
    /\ workers' = WorkerStart(starter.pc)
    /\ starter' = [starter EXCEPT !.pc = Following(starter.pc)]
    /\ UNCHANGED <<ctx, listeners, stopCalls, shutdowns, joined>>

\* Start, lines 622-638: the goroutines that call ListenAndServe(TLS).
StartListen ==
    /\ starter.pc \in {"listen", "listenTLS"}
    /\ LET l == IF starter.pc = "listen" THEN "http" ELSE "https"
       IN listeners' = [listeners EXCEPT ![l].serve = "starting"]
    /\ starter' = [starter EXCEPT !.pc = Following(starter.pc)]
    /\ UNCHANGED <<ctx, workers, stopCalls, shutdowns, joined>>

\* ListenAndServe: on a server already shut down it returns ErrServerClosed, a
\* failing listen returns the error, else it serves; what it returns goes to
\* errCh.
ListenAndServe(l) ==
    /\ listeners[l].serve = "starting"
    /\ \E listens \in BOOLEAN :
          LET serving == listens /\ listeners[l].srv # "shut"
          IN /\ listeners' = [listeners EXCEPT ![l].serve =
                                 IF serving THEN "serving" ELSE "returned"]
             /\ starter' = [starter EXCEPT !.errCh = IF serving THEN @ ELSE @ + 1]
    /\ UNCHANGED <<ctx, workers, stopCalls, shutdowns, joined>>

\* Start, lines 640-646: the select. ctx.Done leads into Shutdown, an error of
\* a listener is returned.
StartSelect ==
    /\ starter.pc = "select"
    /\ \/ /\ ctx
          /\ starter' = [starter EXCEPT !.pc = "shutdown"]
          /\ shutdowns' = [shutdowns EXCEPT !["start"].pc = "begin"]
       \/ /\ starter.errCh > 0
          /\ starter' = [starter EXCEPT !.pc = "returned", !.errCh = @ - 1]
          /\ UNCHANGED shutdowns
    /\ UNCHANGED <<ctx, workers, listeners, stopCalls, joined>>

\* The cases of the loop's select that return: <-stopCh (StartCleanupWorker,
\* Checker.run) and <-ctx.Done() (Checker.run).
Leaves(w) == workers[w].closed \/ (w = "checker" /\ ctx)

\* The loop returns: ticker.Stop() and wg.Done() run deferred.
LoopExit(w) ==
    /\ workers[w].loop = "running"
    /\ Leaves(w)
    /\ workers' = [workers EXCEPT ![w].loop = "exited", ![w].wg = @ - 1]
    /\ UNCHANGED <<ctx, listeners, starter, stopCalls, shutdowns, joined>>

\* Checker.run, <-ticker.C: c.checkAllBackends()
CheckerTick ==
    /\ workers["checker"].loop = "running"
    /\ now < MaxLifeTicks
    /\ CheckTick

\* StartCleanupWorker, <-ticker.C: r.CleanupStale(idleTimeout)
ReaperTick ==
    /\ workers["reaper"].loop = "running"
    /\ CleanupStale

\* A Stop call (on a worker) or an http.Server.Shutdown call (on a listener)
\* begins. saw is history: the worker's loop had been started by then.
NewStop(on, by) ==
    [on |-> on, by |-> by, pc |-> "once",
     saw |-> on \in Workers /\ workers[on].loop # "none"]
StopsOn(cs, w) == {c \in cs : c.on = w}
\* History of the Stop calls of a worker, kept as calls begin.
Begun(ws, cs) ==
    [w \in Workers |->
        [ws[w] EXCEPT !.together =
            IF Cardinality(StopsOn(cs, w)) > @ THEN Cardinality(StopsOn(cs, w)) ELSE @]]

\* Stop() called on the Checker or the CleanupManager by another holder of it.
DirectStop(w) ==
    /\ workers[w].direct < MaxDirectStops
    /\ w = "reaper" => HasCleanupManager
    /\ LET cs == stopCalls \cup {NewStop(w, DirectCallers[workers[w].direct + 1])}
       IN /\ stopCalls' = cs
          /\ workers' = Begun([workers EXCEPT ![w].direct = @ + 1], cs)
    /\ UNCHANGED <<ctx, listeners, starter, shutdowns, joined>>

RunsAlways(done) == TRUE
\* sync.Once.Do(f): f runs when no Do of this Once has run.
RunsOnce(done) == ~done

\* Stop, lines 63-65 / 72-74: stopOnce.Do(func() { close(stopCh) }). Closing a
\* closed channel panics.
StopOnce(c) ==
    /\ c.pc = "once"
    /\ c.on \in Workers
    /\ LET w == workers[c.on]
           closes == RunsOnce(w.once)
       IN IF closes /\ w.closed
          THEN /\ stopCalls' = (stopCalls \ {c}) \cup {[c EXCEPT !.pc = "panic"]}
               /\ UNCHANGED workers
          ELSE /\ stopCalls' = (stopCalls \ {c}) \cup {[c EXCEPT !.pc = "wait"]}
               /\ workers' = [workers EXCEPT ![c.on].once = TRUE,
                                             ![c.on].closed = @ \/ closes]
    /\ UNCHANGED <<ctx, listeners, starter, shutdowns, joined>>

\* wg.Wait() returns when the counter is 0.
Waited(n) == n = 0

\* Stop, line 66 / 75: wg.Wait(), and Stop returns.
StopWait(c) ==
    /\ c.pc = "wait"
    /\ Waited(workers[c.on].wg)
    /\ stopCalls' = stopCalls \ {c}
    /\ workers' = [workers EXCEPT ![c.on].returned = @ + 1]
    /\ joined' = IF c.saw THEN joined \cup {c.on} ELSE joined
    /\ UNCHANGED <<ctx, listeners, starter, shutdowns>>

\* http.Server.Shutdown(ctx): the listener is closed, a running ListenAndServe
\* returns ErrServerClosed (sent to errCh), and the call returns when the
\* connections are idle or the 30 s deadline has passed.
ServerShutdown(c) ==
    /\ c.pc = "once"
    /\ c.on \in Listeners
    /\ listeners' = [listeners EXCEPT ![c.on] =
                        [srv |-> "shut",
                         serve |-> IF @.serve = "serving" THEN "returned" ELSE @.serve]]
    /\ starter' = [starter EXCEPT !.errCh =
                      IF listeners[c.on].serve = "serving" THEN @ + 1 ELSE @]
    /\ stopCalls' = stopCalls \ {c}
    /\ UNCHANGED <<ctx, workers, shutdowns, joined>>

\* main, lines 71-76: a signal arrives; cancel(), then server.Shutdown().
MainSignal ==
    /\ shutdowns["main"].pc = "idle"
    /\ ctx' = TRUE
    /\ shutdowns' = [shutdowns EXCEPT !["main"].pc = "begin"]
    /\ UNCHANGED <<workers, listeners, starter, stopCalls, joined>>

Invoked(i) == shutdowns[i].pc \notin {"idle", "returned"}

\* Shutdown, lines 650-669: a goroutine each for s.healthChecker.Stop() and,
\* when there is a cleanup manager, s.cleanupManager.Stop(). ran and overlapped
\* are history: the workers started by now, and another invocation running.
ShutdownBegin(i) ==
    /\ shutdowns[i].pc = "begin"
    /\ LET ws == {w \in Workers : w = "reaper" => HasCleanupManager}
           cs == stopCalls \cup {NewStop(w, i) : w \in ws}
       IN /\ stopCalls' = cs
          /\ workers' = Begun(workers, cs)
          /\ shutdowns' = [shutdowns EXCEPT ![i] =
                              [pc |-> "http", found |-> ws,
                               ran |-> {w \in ws : workers[w].loop # "none"},
                               overlapped |-> \E j \in Invokers \ {i} : Invoked(j)]]
    /\ UNCHANGED <<ctx, listeners, starter, joined>>

\* Shutdown, lines 671-685: a goroutine for s.server.Shutdown(ctx) when
\* s.server is set, then the same for s.tlsServer.
ShutdownListener(i) ==
    /\ shutdowns[i].pc \in Listeners
    /\ LET l == shutdowns[i].pc
           set == listeners[l].srv # "nil"
       IN /\ stopCalls' = IF set THEN stopCalls \cup {NewStop(l, i)} ELSE stopCalls
          /\ shutdowns' = [shutdowns EXCEPT
                              ![i].pc = IF l = "http" THEN "https" ELSE "wait",
                              ![i].found = IF set THEN @ \cup {l} ELSE @]
    /\ UNCHANGED <<ctx, workers, listeners, starter, joined>>

DoneAnyway(cs) == TRUE
\* wg.Wait() of Shutdown: every goroutine it started has returned.
AllDone(cs) == cs = {}

\* Shutdown, lines 687-688: wg.Wait(); return nil. Start returns with it.
ShutdownWait(i) ==
    /\ shutdowns[i].pc = "wait"
    /\ AllDone({c \in stopCalls : c.by = i})
    /\ shutdowns' = [shutdowns EXCEPT ![i].pc = "returned"]
    /\ starter' = IF i = "start" THEN [starter EXCEPT !.pc = "returned"] ELSE starter
    /\ UNCHANGED <<ctx, workers, listeners, stopCalls, joined>>

\* ---------------------------------------------------------- specifications
Pools ==
    UNION {{[i \in 1..n |-> NewBackend(i, UrlOf[i], w[i])] : w \in [1..n -> 1..MaxWeight]}
           : n \in PoolSizes}

\* NewChecker: empty maps, no goroutine started.
InitChecker ==
    /\ now = 0
    /\ failures = [u \in Urls |-> 0]
    /\ lastCheck = [u \in Urls |-> ZeroTime]
    /\ cmu = <<>>
    /\ probes = {}
    /\ streak = ZeroCounts
    /\ downProbe = [i \in 1..Len(UrlOf) |-> ZeroTime]

\* NewLimiter: an empty map.
InitLimiterVars ==
    /\ limiters = [ip \in Ips |-> 0]
    /\ buckets = <<>>
    /\ callers = EmptyBag
    /\ allows = [made |-> 0, started |-> 0]
    /\ granted = [ip \in Ips |-> [t \in 0..MaxClock |-> 0]]
    /\ reaped = NotRun
    /\ firsts = [ip \in Ips |-> NoFirsts]

\* NewCache(t): an empty map.
InitCacheVars(t) ==
    /\ entries = [k \in Keys |-> NoEntry]
    /\ ttl = t
    /\ got = NoOp
    /\ written = [k \in Keys |-> NoSet]

\* NewMiddleware, NewHandler: the two switches of the configuration.
InitProxyVars(cacheEnabled, limited) ==
    /\ reqs = [s \in 1..MaxInFlight |-> NoRequest]
    /\ answered = NoRequest
    /\ pipe = [cacheEnabled |-> cacheEnabled, limited |-> limited, started |-> 0]

\* A configuration that gives every value, loaded.
GivenConfig ==
    [Server |-> [Host |-> "0.0.0.0", HTTPPort |-> 8080, HTTPSPort |-> 8443,
                 ReadTimeout |-> 30, WriteTimeout |-> 30],
     TLS |-> [Enabled |-> FALSE, CertFile |-> "", KeyFile |-> ""],
     Backends |-> <<[URL |-> "a", Weight |-> 1]>>,
     HealthCheck |-> [Interval |-> 1, Timeout |-> 1, Endpoint |-> "/up",
                      FailureThreshold |-> 1, RecoveryInterval |-> 1],
     Cache |-> [Enabled |-> TRUE, TTL |-> 1],
     RateLimit |-> [Enabled |-> TRUE, RequestsPerMinute |-> 1, Burst |-> 1],
     Logging |-> [Level |-> "debug", Format |-> "console"]]
InitConfigVars ==
    /\ cfg = GivenConfig
    /\ loaded = Load(GivenConfig)

\* NewServer has returned: nothing is started.
InitLifeVars ==
    /\ ctx = FALSE
    /\ workers = [w \in Workers |-> NewWorker]
    /\ listeners = [l \in Listeners |-> NoListener]
    /\ starter = NotStarted
    /\ stopCalls = {}
    /\ shutdowns = [i \in Invokers |-> NotInvoked]
    /\ joined = {}

\* Server.Start waits in its select: the loops run and the listener serves.
InitServing ==
    /\ ctx = FALSE
    /\ workers = [w \in Workers |->
                    IF w = "reaper" /\ ~HasCleanupManager THEN NewWorker
                    ELSE [NewWorker EXCEPT !.loop = "running", !.wg = 1]]
    /\ listeners = [l \in Listeners |->
                      IF l = "https" /\ ~TLSEnabled THEN NoListener
                      ELSE [srv |-> "built", serve |-> "serving"]]
    /\ starter = [NotStarted EXCEPT !.pc = "select"]
    /\ stopCalls = {}
    /\ shutdowns = [i \in Invokers |-> NotInvoked]
    /\ joined = {}

InitBalancer(ph) ==
    /\ InitChecker
    /\ InitLimiterVars
    /\ InitCacheVars(MaxTtl)
    /\ InitProxyVars(TRUE, TRUE)
    /\ InitConfigVars
    /\ InitLifeVars
    /\ backends \in Pools
    /\ nb = Idle
    /\ ret = NoResult
    /\ phase = ph
    /\ downId = 0
    /\ downAtZero = FALSE
    /\ upAtZero = FALSE
    /\ calls = 0
    /\ cnt = ZeroCounts
    /\ recent = <<>>
    /\ stableH = {}
    /\ stableU = {}
    /\ atLock = <<>>
    /\ flips = 0

\* The balancer used through the SRR API by one client at a time.
InitSRR == InitBalancer("fresh")
NextSRR ==
    (CallLock \/ CallLoop1 \/ CallLoop2 \/ ClientSetHealthy)
        /\ UNCHANGED <<checkerVars, probeHist, limiterVars, cacheVars, proxyVars, configVars, lifeVars>>
SpecSRR == InitSRR /\ [][NextSRR]_vars

\* The balancer with health flags flipped concurrently by the checker.
InitRace == InitBalancer("race")
NextRace ==
    (CallLock \/ CallLoop1 \/ CallLoop2 \/ CheckerSetHealthy)
        /\ UNCHANGED <<checkerVars, probeHist, limiterVars, cacheVars, proxyVars, configVars, lifeVars>>
SpecRace == InitRace /\ [][NextRace]_vars

\* The pool built and changed through AddBackend and RemoveBackend, between
\* NextBackend calls (all three take SRR.mu.Lock).
InitPool ==
    /\ InitChecker
    /\ InitLimiterVars
    /\ InitCacheVars(MaxTtl)
    /\ InitProxyVars(TRUE, TRUE)
    /\ InitConfigVars
    /\ InitLifeVars
    /\ backends = <<>>
    /\ nb = Idle
    /\ ret = NoResult
    /\ phase = "pool"
    /\ downId = 0
    /\ downAtZero = FALSE
    /\ upAtZero = FALSE
    /\ calls = 0
    /\ cnt = ZeroCounts
    /\ recent = <<>>
    /\ stableH = {}
    /\ stableU = {}
    /\ atLock = <<>>
    /\ flips = 0
PoolChanges ==
    \/ \E url \in PoolUrls, weight \in 1..MaxPoolWeight : AddBackend(url, weight)
    \/ \E url \in PoolUrls : RemoveBackend(url)
NextPool ==
    (\/ CallLock \/ CallLoop1 \/ CallLoop2
     \/ PoolChanges /\ UNCHANGED histVars)
        /\ UNCHANGED <<checkerVars, probeHist, limiterVars, cacheVars, proxyVars, configVars, lifeVars>>
SpecPool == InitPool /\ [][NextPool]_vars

\* The health checker running over a configured pool.
CheckedPools ==
    UNION {{[i \in 1..n |-> NewBackend(i, UrlOf[i], 1)]} : n \in CheckedPoolSizes}
InitHealth ==
    /\ InitChecker
    /\ InitLimiterVars
    /\ InitCacheVars(MaxTtl)
    /\ InitProxyVars(TRUE, TRUE)
    /\ InitConfigVars
    /\ InitServing
    /\ backends \in CheckedPools
    /\ nb = Idle
    /\ ret = NoResult
    /\ phase = "checked"
    /\ downId = 0
    /\ downAtZero = FALSE
    /\ upAtZero = FALSE
    /\ calls = 0
    /\ cnt = ZeroCounts
    /\ recent = <<>>
    /\ stableH = {}
    /\ stableU = {}
    /\ atLock = <<>>
    /\ flips = 0
ProbeSteps == CheckRead \/ CheckDecide \/ CheckResult \/ CheckLock \/ CheckHandle
NextHealth == CheckTick \/ ProbeSteps
SpecHealth == InitHealth /\ [][NextHealth]_vars

\* The limiter with concurrent Allow calls and the idle reaper.
InitLimiter ==
    /\ InitHealth
    /\ Len(backends) = 1
restLimiter == <<srrVars, histVars, failures, lastCheck, cmu, probes, probeHist, cacheVars, proxyVars,
                 configVars, lifeVars>>
\* A createNewLimiter call returns: the clientLimiter it asked is the one the
\* map holds when it unlocks.
TrackFirst(c) ==
    firsts' = [firsts EXCEPT ![c.ip] =
                  [calls |-> @.calls + 1, asked |-> @.asked \cup {limiters'[c.ip]}]]
\* The IPs whose entry was deleted start afresh.
TrackReaped ==
    firsts' = [ip \in Ips |-> IF Exists(limiters[ip]) /\ ~Exists(limiters'[ip])
                              THEN NoFirsts ELSE firsts[ip]]
LimiterCalls ==
    \/ \E ip \in Ips : AllowLookup(ip) /\ reaped' = NotRun /\ UNCHANGED firsts
    \/ \E c \in Running : AllowCreate(c) /\ reaped' = NotRun /\ TrackFirst(c)
    \/ \E c \in Running : AllowStamp(c) /\ reaped' = NotRun /\ UNCHANGED firsts
    \/ \E c \in Running : AllowTake(c) /\ reaped' = NotRun /\ UNCHANGED firsts
    \/ CleanupStale /\ TrackReaped
NextLimiter ==
    \/ LimiterCalls /\ UNCHANGED <<now, restLimiter>>
    \/ /\ Elapse
       /\ reaped' = NotRun
       /\ UNCHANGED <<limiters, buckets, callers, allows, granted, firsts, restLimiter>>
SpecLimiter == InitLimiter /\ [][NextLimiter]_vars

\* The cache: its operations run one at a time under Cache.mutex.
InitCache ==
    /\ InitChecker
    /\ InitLimiterVars
    /\ \E t \in 0..MaxTtl : InitCacheVars(t)
    /\ InitProxyVars(TRUE, TRUE)
    /\ InitConfigVars
    /\ InitLifeVars
    /\ backends \in {p \in CheckedPools : Len(p) = 1}
    /\ nb = Idle
    /\ ret = NoResult
    /\ phase = "cached"
    /\ downId = 0
    /\ downAtZero = FALSE
    /\ upAtZero = FALSE
    /\ calls = 0
    /\ cnt = ZeroCounts
    /\ recent = <<>>
    /\ stableH = {}
    /\ stableU = {}
    /\ atLock = <<>>
    /\ flips = 0
restCache == <<srrVars, histVars, failures, lastCheck, cmu, probes, probeHist, limiterVars, proxyVars,
               configVars, lifeVars>>
CacheCalls ==
    \/ \E k \in Keys : Get(k)
    \/ \E k \in Keys, v \in Bodies, h \in Headers : Set(k, v, h)
    \/ \E k \in Keys : Delete(k)
    \/ CleanupExpired
    \/ Clear
NextCache ==
    \/ CacheCalls /\ UNCHANGED <<now, restCache>>
    \/ Elapse /\ got' = NoOp /\ UNCHANGED <<entries, ttl, written, restCache>>
SpecCache == InitCache /\ [][NextCache]_vars

\* The proxy: requests pass Chain and ServeHTTP while the health checker flips
\* backends and time passes.
InitProxy ==
    /\ InitChecker
    /\ InitLimiterVars
    /\ InitCacheVars(MaxTtl)
    /\ \E ce \in BOOLEAN, lim \in BOOLEAN : InitProxyVars(ce, lim)
    /\ InitConfigVars
    /\ InitServing
    /\ backends \in {p \in CheckedPools : Len(p) = 1}
    /\ nb = Idle
    /\ ret = NoResult
    /\ phase = "proxy"
    /\ downId = 0
    /\ downAtZero = FALSE
    /\ upAtZero = FALSE
    /\ calls = 0
    /\ cnt = ZeroCounts
    /\ recent = <<>>
    /\ stableH = {}
    /\ stableU = {}
    /\ atLock = <<>>
    /\ flips = 0
restProxy == <<histVars, failures, lastCheck, cmu, probes, probeHist, configVars, lifeVars>>
RequestSteps ==
    \/ \E s \in 1..MaxInFlight, ip \in Clients, m \in Methods, u \in Paths :
          Arrive(s, ip, m, u)
    \/ \E s \in 1..MaxInFlight : Limit(s)
    \/ \E s \in 1..MaxInFlight : Lookup(s)
    \/ \E s \in 1..MaxInFlight : Serve(s)
    \/ \E s \in 1..MaxInFlight : Balance(s)
    \/ \E s \in 1..MaxInFlight, f \in UpstreamFailures : UpstreamFails(s, f)
    \/ \E s \in 1..MaxInFlight, resp \in Responses : UpstreamResponds(s, resp)
Flip ==
    /\ flips < MaxFlips
    /\ \E id \in Ids(backends), healthy \in BOOLEAN :
          /\ BackendById(id).Healthy # healthy
          /\ BackendSetHealthy(id, healthy)
    /\ flips' = flips + 1
    /\ UNCHANGED <<phase, downId, downAtZero, upAtZero, calls, cnt, recent, stableH, stableU, atLock>>
NextProxy ==
    \/ RequestSteps /\ UNCHANGED <<now, restProxy>>
    \/ /\ Flip
       /\ answered' = NoRequest
       /\ UNCHANGED <<checkerVars, probeHist, limiterVars, cacheVars, reqs, pipe, configVars,
                     lifeVars>>
    \/ /\ Elapse
       /\ answered' = NoRequest
       /\ UNCHANGED <<srrVars, limiterVars, cacheVars, reqs, pipe, restProxy>>
SpecProxy == InitProxy /\ [][NextProxy]_vars

\* config.Load on the configuration files explored.
InitConfig ==
    /\ InitChecker
    /\ InitLimiterVars
    /\ InitCacheVars(MaxTtl)
    /\ InitProxyVars(TRUE, TRUE)
    /\ cfg \in ConfigInputs
    /\ loaded = NotLoaded
    /\ InitLifeVars
    /\ backends = <<>>
    /\ nb = Idle
    /\ ret = NoResult
    /\ phase = "config"
    /\ downId = 0
    /\ downAtZero = FALSE
    /\ upAtZero = FALSE
    /\ calls = 0
    /\ cnt = ZeroCounts
    /\ recent = <<>>
    /\ stableH = {}
    /\ stableU = {}
    /\ atLock = <<>>
    /\ flips = 0
NextConfig ==
    LoadConfig /\ UNCHANGED <<srrVars, histVars, checkerVars, probeHist, limiterVars, cacheVars,
                             proxyVars, lifeVars>>
SpecConfig == InitConfig /\ [][NextConfig]_vars

\* The Checker and the CleanupManager in the hands of a client: each is
\* started, the context is cancelled, Stop is called any number of times, and
\* meanwhile the loops tick and the probes run.
InitStop ==
    /\ InitChecker
    /\ InitLimiterVars
    /\ InitCacheVars(MaxTtl)
    /\ InitProxyVars(TRUE, TRUE)
    /\ InitConfigVars
    /\ InitLifeVars
    /\ backends \in {p \in CheckedPools : Len(p) = 1}
    /\ nb = Idle
    /\ ret = NoResult
    /\ phase = "stop"
    /\ downId = 0
    /\ downAtZero = FALSE
    /\ upAtZero = FALSE
    /\ calls = 0
    /\ cnt = ZeroCounts
    /\ recent = <<>>
    /\ stableH = {}
    /\ stableU = {}
    /\ atLock = <<>>
    /\ flips = 0
restLife == <<srrVars, histVars, checkerVars, probeHist, limiterVars, cacheVars, proxyVars,
              configVars>>
LoopSteps == \E w \in Workers : LoopExit(w)
StopSteps == \E c \in stopCalls : StopOnce(c) \/ StopWait(c)
NextStop ==
    \/ (\E w \in Workers : Start(w)) /\ UNCHANGED restLife
    \/ Cancel /\ UNCHANGED restLife
    \/ (\E w \in Workers : DirectStop(w)) /\ UNCHANGED restLife
    \/ StopSteps /\ UNCHANGED restLife
    \/ LoopSteps /\ UNCHANGED restLife
    \/ CheckerTick
    \/ ReaperTick /\ UNCHANGED <<firsts, now, restLimiter>>
    \/ ProbeSteps
SpecStop == InitStop /\ [][NextStop]_vars

\* The same with the goroutines scheduled fairly: a loop whose select can
\* return does return, and a Stop call that can go on does.
FairStop ==
    /\ SpecStop
    /\ WF_vars(LoopSteps /\ UNCHANGED restLife)
    /\ WF_vars(StopSteps /\ UNCHANGED restLife)

\* The server from Start to Shutdown, with a configuration without TLS: Start
\* sets up and starts the loops and the listener, a signal arrives at any
\* moment, and main and Start call Shutdown. (The ticks of the loops are
\* followed in SpecStop.)
InitLife ==
    /\ InitChecker
    /\ InitLimiterVars
    /\ InitCacheVars(MaxTtl)
    /\ \E lim \in BOOLEAN : InitProxyVars(TRUE, lim)
    /\ cfg = [GivenConfig EXCEPT !.RateLimit.Enabled = pipe.limited]
    /\ loaded = Load(cfg)
    /\ InitLifeVars
    /\ backends \in {p \in CheckedPools : Len(p) = 1}
    /\ nb = Idle
    /\ ret = NoResult
    /\ phase = "life"
    /\ downId = 0
    /\ downAtZero = FALSE
    /\ upAtZero = FALSE
    /\ calls = 0
    /\ cnt = ZeroCounts
    /\ recent = <<>>
    /\ stableH = {}
    /\ stableU = {}
    /\ atLock = <<>>
    /\ flips = 0
StartSteps == StartLoad \/ StartBuild \/ StartWorkers \/ StartListen \/ StartSelect
ListenerSteps ==
    \/ \E l \in Listeners : ListenAndServe(l)
    \/ \E c \in stopCalls : ServerShutdown(c)
ShutdownSteps ==
    \E i \in Invokers : ShutdownBegin(i) \/ ShutdownListener(i) \/ ShutdownWait(i)
NextLife ==
    (\/ StartSteps
     \/ ListenerSteps
     \/ LoopSteps
     \/ MainSignal
     \/ StopSteps
     \/ ShutdownSteps) /\ UNCHANGED restLife
SpecLife == InitLife /\ [][NextLife]_vars

\* The same with the goroutines scheduled fairly.
FairLife ==
    /\ SpecLife
    /\ WF_vars(LoopSteps /\ UNCHANGED restLife)
    /\ WF_vars(StopSteps /\ UNCHANGED restLife)
    /\ WF_vars((\E c \in stopCalls : ServerShutdown(c)) /\ UNCHANGED restLife)
    /\ WF_vars(ShutdownSteps /\ UNCHANGED restLife)
    /\ WF_vars(StartSelect /\ UNCHANGED restLife)

\* ------------------------------------------------------------------ claims
Positions == DOMAIN backends
TotalWeight == SumWeights(backends, Positions)
AfterCall == nb.pc = "idle" /\ ret.kind # "none"

\* C1: in a fixed pool of healthy backends whose current weights start at 0,
\* after k * (sum of weights) NextBackend calls each backend i has been
\* returned exactly k * w_i times.
C1_Fairness ==
    (phase = "fresh" /\ nb.pc = "idle" /\ Len(backends) > 0 /\ calls % TotalWeight = 0)
        => \A i \in Positions :
              cnt[backends[i].id] = (calls \div TotalWeight) * backends[i].Weight

C1_Witness ==
    /\ phase = "fresh" /\ nb.pc = "idle"
    /\ Len(backends) = 3
    /\ backends[1].Weight = 1 /\ backends[2].Weight = 2 /\ backends[3].Weight = 3
    /\ calls = TotalWeight
    /\ cnt[1] = 1 /\ cnt[2] = 2 /\ cnt[3] = 3

\* C2: when some backend is healthy for the whole time a NextBackend call holds
\* the balancer lock, the call returns a backend and not ErrNoHealthyBackends;
\* a backend that was unhealthy when the call acquired the lock (and stayed so)
\* is never the one returned.
C2_ReturnsHealthy ==
    AfterCall =>
        /\ stableH # {} => ret.kind = "ok"
        /\ ret.kind = "ok" => ret.id \notin stableU

C2_Witness ==
    /\ AfterCall /\ ret.kind = "ok"
    /\ stableH # {} /\ stableU # {}
    /\ stableH \cup stableU # Ids(backends)

\* The positions of the backends other than the one marked unhealthy.
Others == {i \in Positions : backends[i].id # downId}
\* cnt is in exact proportion to the weights of the positions in S.
Proportional(S) ==
    \A i \in S : cnt[backends[i].id] * SumWeights(backends, S)
                    = calls * backends[i].Weight
\* The calls completed in this phase are whole rounds over the positions in S.
WholeRounds(S) ==
    S # {} /\ (calls * GcdWeights(backends, S)) % SumWeights(backends, S) = 0

\* C3: from a pool whose current weights are all 0, a backend marked unhealthy
\* is never returned and the others are returned in exact proportion to their
\* weights; once it is marked healthy again the calls that follow are in exact
\* proportion over all backends.
C3_DownAndRecovery ==
    /\ (phase = "down" /\ nb.pc = "idle" /\ downAtZero)
          => /\ cnt[downId] = 0
             /\ WholeRounds(Others) => Proportional(Others)
    /\ (phase = "recovered" /\ nb.pc = "idle" /\ downAtZero)
          => (WholeRounds(Positions) => Proportional(Positions))

C3_Witness ==
    /\ phase = "recovered" /\ nb.pc = "idle" /\ downAtZero /\ ~upAtZero
    /\ Len(backends) = 3 /\ downId = 2
    /\ backends[1].Weight = backends[2].Weight /\ backends[2].Weight = backends[3].Weight
    /\ calls = 3
    /\ cnt[1] = 1 /\ cnt[2] = 1 /\ cnt[3] = 1

\* C4: NextBackend on an empty pool, or on a pool whose backends are all
\* unhealthy during the call, returns ErrNoHealthyBackends and leaves the pool
\* and every current weight as they were.
C4_NoHealthyBackends ==
    (AfterCall /\ stableU = Ids(backends))
        => /\ ret = ErrNoHealthyBackends
           /\ PoolWeights(backends) = atLock

C4_Witness ==
    /\ AfterCall /\ stableU = Ids(backends)
    /\ Len(backends) >= 2
    /\ ~AllZero(backends)

C4_WitnessEmpty ==
    AfterCall /\ Len(backends) = 0

\* No started checkBackend goroutine can take a step any more.
Quiescent == ~ENABLED ProbeSteps

\* The probes whose failed result (no response, or a status other than 200)
\* has reached the checker and is not counted yet.
Uncounted == {p \in probes : p.outcome \in {"error", "status500"}}
\* The probes whose response with status 200 has reached the checker.
Succeeded == {p \in probes : p.outcome = "status200"}

\* C5: every failed probe (network error or a status other than 200) adds one
\* to the backend's failure counter, and a counter at failure_threshold means
\* the backend is marked unhealthy: when the checker comes to rest no failed
\* result is left uncounted.
C5_EveryFailureCounted ==
    Quiescent =>
        /\ Uncounted = {}
        /\ \A i \in Positions :
              ReachedThreshold(failures[backends[i].URL]) => ~backends[i].Healthy

\* C6: a probe answered with status 200 resets the failure counter to 0 and
\* leaves the backend healthy: when the checker comes to rest, a backend whose
\* status 200 was recorded has no failures counted and is healthy.
C6_SuccessResets ==
    Quiescent =>
        \A p \in Succeeded :
            p.pc = "locked" =>
                /\ failures[BackendById(p.b).URL] = 0
                /\ BackendById(p.b).Healthy

\* C7: the checker switches a backend from healthy to unhealthy only when at
\* least failure_threshold probes of it have failed in a row, with no
\* successful probe of it recorded between them.
C7_Hysteresis ==
    [][\A i \in Positions :
          (backends[i].Healthy /\ ~backends'[i].Healthy)
              => streak'[backends[i].id] >= FailureThreshold]_vars

C7_Witness ==
    \E i \in Positions :
        /\ ~backends[i].Healthy
        /\ streak[backends[i].id] >= FailureThreshold

\* C8: two probes of the same unhealthy backend are never sent less than
\* recovery_interval apart.
C8_RecoverySpacing ==
    [][\A id \in Ids(backends) :
          (downProbe'[id] # downProbe[id] /\ downProbe[id] # ZeroTime)
              => downProbe'[id] - downProbe[id] >= RecoveryInterval]_vars

RECURSIVE GrantsIn(_, _, _)
\* The Allow calls of this IP that returned true at the times t1..t2.
GrantsIn(ip, t1, t2) ==
    IF t1 > t2 THEN 0 ELSE granted[ip][t1] + GrantsIn(ip, t1 + 1, t2)

\* C9: for every client and every window t1..t2, at most burst + rate * (t2 - t1)
\* Allow calls return true in the window.
C9_UpperBound ==
    \A ip \in Ips : \A t1 \in 0..now : \A t2 \in t1..now :
        GrantsIn(ip, t1, t2) * OneToken <= Burst * OneToken + (t2 - t1)

\* C10: a new bucket grants exactly the first burst calls made at the instant
\* it is created and denies the later ones; once it is drained, the time of one
\* token later brings exactly one more grant; and it never holds more than
\* burst tokens, however long ago it was last used.
C10_BurstThenRefill ==
    \A id \in DOMAIN buckets :
        LET bk == buckets[id]
        IN /\ Advance(bk, now) <= Capacity
           /\ bk.birthGrants = Min(bk.birthCalls, Burst)
           /\ (bk.birthCalls >= Burst /\ now <= bk.born + RefillTicks)
                 => bk.laterGrants = Min(bk.laterCalls, 1)

C10_Witness ==
    \E id \in DOMAIN buckets :
        /\ buckets[id].birthCalls > Burst
        /\ buckets[id].birthGrants = Burst
        /\ now = buckets[id].born + RefillTicks
        /\ buckets[id].laterCalls = 2
        /\ buckets[id].laterGrants = 1

\* C11: the createNewLimiter calls that run for an IP without an entry all ask
\* one and the same clientLimiter, the one the map then holds for the IP, and
\* Size counts each IP that has an entry once.
C11_OneBucketPerIp ==
    /\ \A ip \in Ips :
          firsts[ip].calls > 0 =>
              /\ Cardinality(firsts[ip].asked) = 1
              /\ firsts[ip].asked = {limiters[ip]}
    /\ LimiterSize = Cardinality({buckets[id].ip : id \in {limiters[ip] : ip \in Ips} \ {0}})

C11_Witness ==
    \E ip \in Ips :
        /\ firsts[ip].calls >= 2
        /\ LimiterSize = 1

\* C12: one CleanupStale pass removes exactly the entries with
\* now - lastSeen > idleTimeout, returns their number and leaves the other
\* entries in place; when every entry is that old it returns the number of
\* entries and Size becomes 0.
C12_CleanupStale ==
    [][reaped'.ran =>
          LET old == {ip \in Ips : limiters[ip] # 0
                                     /\ now - buckets[limiters[ip]].lastSeen > IdleTimeout}
          IN /\ \A ip \in old : limiters'[ip] = 0
             /\ \A ip \in Ips \ old :
                   /\ limiters'[ip] = limiters[ip]
                   /\ limiters[ip] # 0 => buckets'[limiters[ip]] = buckets[limiters[ip]]
             /\ reaped'.count = Cardinality(old)
             /\ Cardinality(old) = LimiterSize => LimiterSize' = 0]_vars

C12_Witness ==
    /\ reaped.ran
    /\ reaped.count = 2
    /\ LimiterSize = 0

\* C13: Get returns the entry exactly when the key has one and
\* now < created_at + ttl; from created_at + ttl on it reports a miss.
C13_TtlMiss ==
    got.op = "get" =>
        (got.result.found <=>
            /\ entries[got.key].set
            /\ now < entries[got.key].CreatedAt + ttl)

\* C14: after a Set on a key that had an entry, Get of the key before expiry
\* returns the value and header of the latest Set, the entry expires ttl after
\* that Set, and Size counts the key once.
C14_SetOverwrites ==
    \A k \in Keys :
        written[k].sets > 0 =>
            /\ entries[k].set => entries[k].ExpiresAt = written[k].at + ttl
            /\ now < written[k].at + ttl =>
                  /\ CacheGet(k, now) = [found |-> TRUE, value |-> written[k].value,
                                         header |-> written[k].header]
                  /\ CacheSize(entries) = 1 + CacheSize([entries EXCEPT ![k] = NoEntry])

C14_Witness ==
    \E k \in Keys :
        /\ written[k].sets = 2
        /\ written[k].at > 0
        /\ entries[k].set
        /\ now < written[k].at + ttl
        /\ got = [op |-> "get", key |-> k, result |-> CacheGet(k, now)]

\* C15: one CleanupExpired pass removes exactly the entries for which Get
\* reports a miss because of expiry, returns their number and leaves the other
\* entries in place, so Size drops by the returned count.
C15_CleanupExpired ==
    [][got'.op = "cleanup" =>
          LET expired == {k \in Keys : entries[k].set /\ ~CacheGet(k, now).found}
          IN /\ \A k \in expired : ~entries'[k].set
             /\ \A k \in Keys \ expired : entries'[k] = entries[k]
             /\ got'.count = Cardinality(expired)
             /\ CacheSize(entries') = CacheSize(entries) - got'.count]_vars

C15_Witness ==
    /\ got.op = "cleanup"
    /\ got.count = 1
    /\ CacheSize(entries) = 1

\* A NextBackend call run alone on the pool as it was when the call took SRR.mu,
\* with exactly the backends of H reading healthy throughout: the result and
\* the current weights afterwards.
SequentialCall(H) ==
    LET P == DOMAIN atLock
        inH(i) == atLock[i][1] \in H
        total == SumWeights(backends, {i \in P : inH(i)})
        raised == [i \in P |-> IF inH(i) THEN atLock[i][2] + backends[i].Weight
                               ELSE atLock[i][2]]
        cand == {i \in P : inH(i)}
        best == CHOOSE i \in cand :
                    \A j \in cand : raised[j] < raised[i] \/ (raised[j] = raised[i] /\ j >= i)
    IN IF P = {} \/ total = 0
       THEN [ret |-> ErrNoHealthyBackends,
             weights |-> [i \in P |-> <<atLock[i][1], atLock[i][2]>>]]
       ELSE [ret |-> Returned(backends[best]),
             weights |-> [i \in P |-> <<atLock[i][1],
                                        IF i = best THEN raised[i] - total ELSE raised[i]>>]]

\* C20: whatever flips run during a NextBackend call, its result and the
\* current weights it leaves are those of the call run alone with some fixed
\* set H of healthy backends.
C20_OneHealthySet ==
    (phase = "race" /\ AfterCall) =>
        \E H \in SUBSET Ids(backends) :
            /\ SequentialCall(H).ret = ret
            /\ SequentialCall(H).weights = PoolWeights(backends)

\* The request of slot s makes a step.
Moves(s) == reqs[s].pc # "idle" /\ reqs'[s] # reqs[s]
\* The values of the header map h are all among those of the header map sent.
AllSent(h, sent) ==
    \A n \in DOMAIN h :
        /\ n \in DOMAIN sent
        /\ \E k \in 0..Len(sent[n]) - Len(h[n]) :
              SubSeq(sent[n], k + 1, k + Len(h[n])) = h[n]

\* C16: a GET with caching enabled whose key has an unexpired entry is answered
\* 200 with the stored body and every stored header value, the handler and
\* NextBackend are not called and the balancer is left as it was.
C16_HitStops ==
    [][\A s \in 1..MaxInFlight :
          (/\ Moves(s)
           /\ reqs[s].pc = "cache"
           /\ pipe.cacheEnabled
           /\ reqs[s].method = "GET"
           /\ entries[getCacheKey(reqs[s])].set
           /\ now < entries[getCacheKey(reqs[s])].ExpiresAt)
          => /\ answered'.pc = "done"
             /\ answered'.sent = <<200>>
             /\ answered'.body = entries[getCacheKey(reqs[s])].Value
             /\ AllSent(entries[getCacheKey(reqs[s])].Header, answered'.header)
             /\ answered'.did \cap {"dispatch", "next", "set"} = {}
             /\ answered'.up = "none"
             /\ UNCHANGED <<backends, nb, ret>>]_vars

C16_Witness ==
    /\ answered.pc = "done"
    /\ answered.sent = <<200>>
    /\ answered.up = "none"
    /\ answered.header.Vary = <<"a", "b">>
    /\ HealthyIds(backends) = {}

\* C17: a request the limiter denies is answered 429 without a cache lookup,
\* without the handler and NextBackend, and with the cache and the balancer
\* left as they were, also when its response is cached; every request let
\* through has taken one token from its client's bucket.
C17_DeniedStops ==
    [][pipe.limited =>
          /\ \A s \in 1..MaxInFlight :
                (/\ Moves(s)
                 /\ reqs[s].pc = "limit"
                 /\ Available(limiters, buckets, reqs[s].ip) < OneToken)
                => /\ answered'.pc = "done"
                   /\ answered'.sent = <<429>>
                   /\ answered'.did = {"allow"}
                   /\ answered'.taken = 0
                   /\ UNCHANGED <<entries, backends, nb, ret>>
          /\ \A s \in 1..MaxInFlight :
                reqs'[s].pc \notin {"idle", "limit"} => reqs'[s].taken = OneToken
          /\ (answered'.pc = "done" /\ answered'.sent # <<429>>)
                => answered'.taken = OneToken]_vars

C17_Witness ==
    /\ pipe.limited
    /\ answered.pc = "done"
    /\ answered.sent = <<429>>
    /\ answered.method = "GET"
    /\ pipe.cacheEnabled
    /\ CacheGet(getCacheKey(answered), now).found

\* C18: a step stores a response in the cache exactly when it answers a GET
\* with caching enabled from an upstream response of status 200 whose body was
\* read to the end; every other step leaves the cache unchanged.
C18_StoresOnlyGet200 ==
    [][IF /\ answered'.pc = "done"
          /\ pipe.cacheEnabled
          /\ answered'.method = "GET"
          /\ answered'.up = "response"
          /\ answered'.sent = <<200>>
       THEN /\ \A k \in Keys \ {getCacheKey(answered')} : entries'[k] = entries[k]
            /\ entries'[getCacheKey(answered')].set
            /\ entries'[getCacheKey(answered')].Value = answered'.body
            /\ AllSent(entries'[getCacheKey(answered')].Header, answered'.header)
            /\ entries'[getCacheKey(answered')].ExpiresAt = now + ttl
       ELSE entries' = entries]_vars

C18_Witness ==
    /\ answered.pc = "done"
    /\ answered.up = "response"
    /\ answered.sent = <<200>>
    /\ "set" \in answered.did
    /\ entries[getCacheKey(answered)].set
    /\ entries[getCacheKey(answered)].Value = answered.body

\* C19: a request whose NextBackend call returns ErrNoHealthyBackends is
\* answered 503, one whose upstream call fails (URL, request or call) is
\* answered 502; one status is sent and nothing of an upstream response.
C19_ErrorStatus ==
    [][/\ \A s \in 1..MaxInFlight :
             (Moves(s) /\ reqs[s].pc \in {"serve", "balancing"} /\ ret'.kind = "err")
             => /\ answered'.pc = "done"
                /\ answered'.sent = <<503>>
       /\ (answered'.pc = "done" /\ answered'.up \in UpstreamFailures)
             => answered'.sent = <<502>>
       /\ (answered'.pc = "done" /\ answered'.up \in UpstreamFailures \cup {"nobackend"})
             => /\ Len(answered'.sent) = 1
                /\ answered'.header = NewRequest("", "", "").header
                /\ answered'.body \notin Bodies]_vars

C19_Witness ==
    /\ answered.pc = "done"
    /\ answered.up = "nobackend"
    /\ answered.sent = <<503>>
    /\ HealthyIds(backends) = {}

RECURSIVE SumCurrent(_, _)
\* Sum of backends[i].CurrentWeight over the positions i in S.
SumCurrent(bs, S) ==
    IF S = {} THEN 0
    ELSE LET i == CHOOSE x \in S : TRUE
         IN bs[i].CurrentWeight + SumCurrent(bs, S \ {i})

\* C27: in a pool whose backends were all added with current weight 0, the
\* current weights sum to 0 after every NextBackend call, returning a backend
\* or the error, whatever flips the checker makes meanwhile.
C27_ZeroSum ==
    (phase = "race" /\ AfterCall) => SumCurrent(backends, Positions) = 0

Abs(x) == IF x < 0 THEN -x ELSE x

\* C29: after each NextBackend call, with health flips made between and during
\* the calls, every backend's current weight is at most the sum of the static
\* weights of the pool in magnitude.
C29_WeightBound ==
    (phase = "race" /\ AfterCall) =>
        \A i \in Positions : Abs(backends[i].CurrentWeight) <= TotalWeight

\* The flags of all backends stayed as they were while the call held SRR.mu.
SteadyCall == stableH \cup stableU = Ids(backends)

\* C30: a NextBackend call that returns a backend is one step of smooth
\* weighted round-robin over the healthy backends H: each backend of H has its
\* weight added, the backend of H with the greatest current weight (the earliest
\* one on a tie) is returned, and only its current weight is reduced by the sum
\* of the weights of H.
C30_ReferenceStep ==
    (AfterCall /\ ret.kind = "ok" /\ SteadyCall) =>
        /\ SequentialCall(stableH).ret = ret
        /\ SequentialCall(stableH).weights = PoolWeights(backends)

C30_Witness ==
    /\ AfterCall /\ ret.kind = "ok" /\ SteadyCall
    /\ stableU # {}
    /\ \E i \in DOMAIN atLock : \E j \in DOMAIN atLock :
          /\ i < j
          /\ atLock[i][1] \in stableH /\ atLock[j][1] \in stableH
          /\ atLock[i][1] = ret.id
          /\ atLock[i][2] # 0
          /\ atLock[i][2] + backends[i].Weight = atLock[j][2] + backends[j].Weight

\* The goroutine that holds c.mu takes its next step.
HolderMoves ==
    \E p \in probes :
        /\ ProbeKey(p) = cmu
        /\ ProbeHandle(p)

\* C24: every acquisition of the checker lock is released, whatever the probe
\* came to: whenever c.mu is held, the goroutine holding it can go on to the
\* release, so the probes of other backends and of later ticks get the lock.
C24_LockReleased ==
    cmu # <<>> => ENABLED HolderMoves

\* The probes whose request is out and not answered yet.
InFlight == {p \in probes : p.pc = "inflight"}

\* C25: no two probes of one backend are in flight at the same time, also when
\* a probe is still unanswered at the next tick.
C25_OneInFlight ==
    \A p \in InFlight : \A q \in InFlight : p.b = q.b => p = q

\* The probe has a result and its goroutine returns in this step.
Completes(p) ==
    /\ p.outcome # "none"
    /\ \A q \in probes' : ProbeKey(q) # ProbeKey(p)

\* C26: when a probe completes, whatever its result, last_check of its backend
\* is the time of completion.
C26_LastCheckSet ==
    [][\A p \in probes :
          Completes(p) => lastCheck'[BackendById(p.b).URL] = now']_vars

\* The documented defaults.
Documented ==
    [HealthCheck |-> [Interval |-> 5, Timeout |-> 2, Endpoint |-> "/healthz",
                      FailureThreshold |-> 3, RecoveryInterval |-> 15],
     RateLimit |-> [RequestsPerMinute |-> 600, Burst |-> 100],
     Cache |-> [TTL |-> 60],
     Logging |-> [Level |-> "info", Format |-> "json"]]
\* The configuration with the documented default in the place of each omitted
\* health_check, rate_limit, cache.ttl and logging value.
FilledIn(c) ==
    [c EXCEPT
        !.HealthCheck.Interval = OrDefault(@, 0, Documented.HealthCheck.Interval),
        !.HealthCheck.Timeout = OrDefault(@, 0, Documented.HealthCheck.Timeout),
        !.HealthCheck.Endpoint = OrDefault(@, "", Documented.HealthCheck.Endpoint),
        !.HealthCheck.FailureThreshold = OrDefault(@, 0, Documented.HealthCheck.FailureThreshold),
        !.HealthCheck.RecoveryInterval = OrDefault(@, 0, Documented.HealthCheck.RecoveryInterval),
        !.RateLimit.RequestsPerMinute = OrDefault(@, 0, Documented.RateLimit.RequestsPerMinute),
        !.RateLimit.Burst = OrDefault(@, 0, Documented.RateLimit.Burst),
        !.Cache.TTL = OrDefault(@, 0, Documented.Cache.TTL),
        !.Logging.Level = OrDefault(@, "", Documented.Logging.Level),
        !.Logging.Format = OrDefault(@, "", Documented.Logging.Format)]

\* C23: loading a configuration that is valid but for omitted health_check,
\* rate_limit, cache.ttl or logging values succeeds, and each omitted value has
\* its documented default in the result.
C23_Defaults ==
    (loaded.done /\ Validate(FilledIn(cfg)) = NoError) =>
        /\ loaded.ok
        /\ loaded.cfg.HealthCheck = FilledIn(cfg).HealthCheck
        /\ loaded.cfg.RateLimit = FilledIn(cfg).RateLimit
        /\ loaded.cfg.Cache = FilledIn(cfg).Cache
        /\ loaded.cfg.Logging = FilledIn(cfg).Logging

\* The Stop call returns in this step.
Returns(c) == c.pc = "wait" /\ c \notin stopCalls'

\* C21: Stop on the CleanupManager and on the Checker can be called any number
\* of times, one after another or at once: no call panics, every call returns,
\* and a call returns only when the loop that Start started has exited; the
\* Checker loop also exits once the context is cancelled; and a tick is
\* processed only by a loop that has not exited.
C21_StopJoins ==
    /\ [][\A c \in stopCalls :
             Returns(c) => /\ workers'[c.on].loop # "running"
                           /\ c.saw => workers'[c.on].loop = "exited"]_vars
    /\ [](\A c \in stopCalls : c.pc # "panic")
    /\ []<>(stopCalls = {})
    /\ (ctx ~> workers["checker"].loop # "running")
    /\ [][/\ now' # now => workers["checker"].loop = "running"
          /\ (reaped'.ran /\ reaped' # reaped) => workers["reaper"].loop = "running"]_vars

C21_Witness ==
    /\ stopCalls = {}
    /\ \A w \in Workers :
          /\ workers[w].returned = MaxDirectStops
          /\ workers[w].together >= 2
          /\ w \in joined
          /\ workers[w].loop = "exited"
    /\ now > 0
    /\ reaped.ran

\* The healthy flags of the pool.
Flags(bs) == [i \in DOMAIN bs |-> bs[i].Healthy]

\* C28: once a Stop call on the Checker that found the loop started has
\* returned, no failure counter, last_check entry or healthy flag changes any
\* more.
C28_NoWriteAfterStop ==
    [][("checker" \in joined)
          => (failures' = failures /\ lastCheck' = lastCheck
              /\ Flags(backends') = Flags(backends))]_vars

\* The Shutdown invocation returns in this step.
ShutdownReturns(i) == shutdowns[i].pc = "wait" /\ shutdowns'[i].pc = "returned"

\* C22: Shutdown closes the stop channels of the health checker and of the
\* limiter reaper and shuts the listeners down; when an invocation returns, the
\* loops that were started when it began have exited, the listeners it found
\* are shut down and every goroutine it started has returned; invoked by main
\* and by Start, one after the other or at once, no invocation panics and
\* every invocation returns.
C22_ShutdownJoins ==
    /\ [][\A i \in Invokers :
             ShutdownReturns(i) =>
                /\ workers'["checker"].closed
                /\ HasCleanupManager => workers'["reaper"].closed
                /\ \A w \in shutdowns[i].ran : workers'[w].loop = "exited"
                /\ \A l \in shutdowns[i].found \cap Listeners :
                      /\ listeners'[l].srv = "shut"
                      /\ listeners'[l].serve # "serving"
                /\ \A c \in stopCalls' : c.by # i]_vars
    /\ [](\A c \in stopCalls : c.pc # "panic")
    /\ \A i \in Invokers : Invoked(i) ~> shutdowns[i].pc = "returned"

C22_Witness ==
    /\ \A i \in Invokers :
          /\ shutdowns[i].pc = "returned"
          /\ shutdowns[i].ran = Workers
          /\ "http" \in shutdowns[i].found
    /\ \E i \in Invokers : shutdowns[i].overlapped
    /\ \A w \in Workers : workers[w].loop = "exited" /\ workers[w].together = 2
    /\ listeners["http"] = [srv |-> "shut", serve |-> "returned"]

\* The static weight and URL of every backend, in pool order.
Statics(bs) == [i \in DOMAIN bs |-> <<bs[i].id, bs[i].URL, bs[i].Weight>>]

\* C31: no step changes the current weight of a backend that is marked
\* unhealthy (NextBackend passes it over, and the step that marks it healthy
\* again leaves the weight it went down with); a step that only marks a
\* backend changes no current weight, no static weight and not the pool; and
\* SRR.SetHealthy on a URL that is not in the pool returns false and changes
\* nothing.
C31_HealthFrame ==
    /\ [][\A i \in Positions :
             ~backends[i].Healthy =>
                backends'[i].CurrentWeight = backends[i].CurrentWeight]_vars
    /\ [][nb' = nb => /\ PoolWeights(backends') = PoolWeights(backends)
                      /\ Statics(backends') = Statics(backends)]_vars
    /\ [][\A url \in Urls, healthy \in BOOLEAN :
             (SRRSetHealthy(url, healthy) /\ ~SetHealthyFound(backends, url))
                => backends' = backends]_vars

C31_Witness ==
    /\ phase = "recovered" /\ nb.pc = "idle" /\ calls = 0
    /\ downAtZero /\ ~upAtZero
    /\ Len(backends) = 3
    /\ \E i \in Positions :
          /\ backends[i].id = downId
          /\ backends[i].Healthy
          /\ backends[i].CurrentWeight = 0
          /\ \A j \in Positions \ {i} : backends[j].CurrentWeight # 0

\* The latest three calls returned the same backend.
ThreeInARow(id) == LastOf(recent, 3) = <<id, id, id>>

\* C32: with all backends healthy and current weights starting at 0, three
\* consecutive NextBackend calls return the same backend only if that
\* backend's weight exceeds the sum of the other backends' weights.
C32_NoThreeInARow ==
    (phase = "fresh" /\ nb.pc = "idle") =>
        \A i \in Positions :
            ThreeInARow(backends[i].id) =>
                backends[i].Weight > SumWeights(backends, Positions \ {i})

C32_Witness ==
    /\ phase = "fresh" /\ nb.pc = "idle"
    /\ Len(backends) = 3
    /\ backends[1].Weight = 2 /\ backends[2].Weight = 1 /\ backends[3].Weight = 1
    /\ LastOf(recent, 3) = <<1, 1, 2>>

C32_WitnessHeavy ==
    /\ phase = "fresh" /\ nb.pc = "idle"
    /\ Len(backends) = 2
    /\ backends[1].Weight = 3 /\ backends[2].Weight = 1
    /\ ThreeInARow(1)

\* The Allow call c returns in this step.
AllowReturns(c) == c.pc \in {"create", "take"} /\ callers' = Return(c)
\* The clientLimiter the call asked for its token: the one it looked up, or
\* the one createNewLimiter found or made under the write lock.
Asked(c) == IF c.pc = "take" THEN c.bucket ELSE limiters'[c.ip]

\* C33: when an Allow(ip) call returns, the clientLimiter it stamped and asked
\* is the one the map holds for ip (stamped with the time of the call when
\* createNewLimiter did it); and last_seen of a clientLimiter never decreases.
C33_StampsLiveBucket ==
    /\ [][\A c \in Running :
             AllowReturns(c) =>
                /\ limiters'[c.ip] = Asked(c)
                /\ c.pc = "create" => buckets'[limiters'[c.ip]].lastSeen = now]_vars
    /\ [][\A id \in (DOMAIN buckets) \cap (DOMAIN buckets') :
             buckets'[id].lastSeen >= buckets[id].lastSeen]_vars

\* The entries of the map that are past their expiry.
ExpiredKeys == {k \in Keys : entries[k].set /\ IsExpired(entries[k], now)}

\* C34: after a Get of a key whose entry has expired the entry is no longer in
\* the map and Size does not count it.
C34_ExpiredGoneAfterGet ==
    got.op = "get" =>
        /\ got.key \notin ExpiredKeys
        /\ ~got.result.found =>
              CacheSize(entries) = CacheSize([entries EXCEPT ![got.key] = NoEntry])

\* The Allow call c takes a step: one of the calls standing where c stands
\* has moved on.
Acts(c) == CopiesIn(c, callers') < CopiesIn(c, callers)

\* C35: an entry is put in the map only for the IP of an Allow call that found
\* none; a step changes tokens and last_seen only of a bucket of the IP whose
\* Allow call takes the step; and when Allow(ip) returns, ip has an entry in
\* the map, so that Size counts every IP served since the last reaper pass
\* that removed it.
C35_PerIpBuckets ==
    /\ [][\A ip \in Ips :
             (limiters'[ip] # limiters[ip] /\ Exists(limiters'[ip])) =>
                /\ ~Exists(limiters[ip])
                /\ \E c \in Running : c.ip = ip /\ c.pc = "create" /\ Acts(c)]_vars
    /\ [][\A id \in (DOMAIN buckets) \cap (DOMAIN buckets') :
             (\/ buckets'[id].tokens # buckets[id].tokens
              \/ buckets'[id].lastSeen # buckets[id].lastSeen)
                => \E c \in Running : c.ip = buckets[id].ip /\ Acts(c)]_vars
    /\ [][\A c \in Running : AllowReturns(c) => Exists(limiters'[c.ip])]_vars

\* The pool with the element at position i taken out.
Except(bs, i) == SubSeq(bs, 1, i - 1) \o SubSeq(bs, i + 1, Len(bs))

\* C36: RemoveBackend(url) takes out the first backend in insertion order
\* whose URL is url, leaves the other backends in their order with their
\* current weights and returns true; when no backend has the URL it returns
\* false and leaves the pool as it was. AddBackend appends at the end.
C36_RemoveFirstMatch ==
    /\ [][\A url \in PoolUrls :
             RemoveBackend(url) =>
                LET S == {i \in Positions : backends[i].URL = url}
                IN IF S = {}
                   THEN ret'.kind = "absent" /\ backends' = backends
                   ELSE /\ ret'.kind = "removed"
                        /\ \E i \in S :
                              /\ \A j \in S : i <= j
                              /\ ret'.id = backends[i].id
                              /\ backends' = Except(backends, i)]_vars
    /\ [][\A url \in PoolUrls, weight \in 1..MaxPoolWeight :
             AddBackend(url, weight) =>
                /\ Len(backends') = Len(backends) + 1
                /\ SubSeq(backends', 1, Len(backends)) = backends
                /\ backends'[Len(backends')].URL = url
                /\ backends'[Len(backends')].Weight = weight]_vars

C36_Witness ==
    /\ ret.kind = "removed" /\ ret.url = "a"
    /\ Len(backends) = 2
    /\ backends[1].URL = "b" /\ backends[2].URL = "a"
    /\ backends[1].CurrentWeight # 0 /\ backends[2].CurrentWeight # 0

C36_WitnessAbsent ==
    /\ ret.kind = "absent" /\ ret.url = "a"
    /\ Len(backends) = 2
    /\ ~AllZero(backends)
====
